---- MODULE Spec2Model ----
(***************************************************************************)
(* Model of the WebSocket relay of collab_editor2.c: the accept loop       *)
(* (websocket_server), the client list (add_client / remove_client),       *)
(* broadcast_message, and the per-connection thread handle_websocket.      *)
(*                                                                         *)
(* Strings are sequences of tokens.  A token is one punctuation character  *)
(* of the wire text (brace, quote, colon, comma, backslash) or a run of    *)
(* other characters.  Every pattern the code searches with strstr begins   *)
(* and ends at punctuation, so a search over tokens finds what the search  *)
(* over characters finds.                                                  *)
(***************************************************************************)
EXTENDS Integers, Sequences, FiniteSets, TLC

\* ------------------------------------------------------------------ bounds
MaxConn == 3          \* connections accepted over a run
MaxInputs == 1        \* peer inputs after the upgrade over a run: frames and closes
MaxSeed == 1          \* srand(time(NULL)) picks one of MaxSeed streams
ActiveSessions == 2   \* SpecActive: sessions in their read loop at the start
MaxActiveInputs == 2  \* SpecActive: peer inputs over a run

Conn == 1..MaxConn
NULL == 0

\* ------------------------------------------------------------------ tokens
Q == "\""
BS == "\\"
LB == "{"
RB == "}"
COLON == ":"
COMMA == ","

colors ==
  <<"#FF6B6B", "#4ECDC4", "#45B7D1", "#FFA07A", "#98D8C8",
    "#F7DC6F", "#BB8FCE", "#85C1E2", "#FF69B4", "#20B2AA">>

\* strstr(s + from - 1, p): index of the first occurrence of p in s at or
\* after from, NULL when there is none
strstrFrom(s, from, p) ==
  LET hits == { i \in from..(Len(s) - Len(p) + 1) : SubSeq(s, i, i + Len(p) - 1) = p }
  IN IF hits = {} THEN NULL ELSE CHOOSE i \in hits : \A j \in hits : i <= j

strstr(s, p) == strstrFrom(s, 1, p)

\* strchr(s + from - 1, ch)
strchr(s, from, ch) ==
  LET hits == { i \in from..Len(s) : s[i] = ch }
  IN IF hits = {} THEN NULL ELSE CHOOSE i \in hits : \A j \in hits : i <= j

\* atoi of the text that starts at token from: a run of digits is one token
atoi(s, from) ==
  IF from > Len(s) THEN 0
  ELSE IF \E n \in 0..9 : ToString(n) = s[from]
       THEN CHOOSE n \in 0..9 : ToString(n) = s[from]
       ELSE 0

\* the search patterns of handle_websocket
TypeIs(kind) == <<Q, "type", Q, COLON, Q, kind, Q>>
KeyStr(key) == <<Q, key, Q, COLON, Q>>          \* "key":"
KeyNum(key) == <<Q, key, Q, COLON>>             \* "key":

\* ---------------------------------------------------------- message texts
\* A JSON object as text: members in the given order, no white space (what
\* JSON.stringify emits and what the snprintf formats of the server spell).
StrMember(key, val) == <<Q, key, Q, COLON, Q>> \o val \o <<Q>>
NumMember(key, tok) == <<Q, key, Q, COLON, tok>>

RECURSIVE JoinMembers(_)
JoinMembers(ms) ==
  IF ms = <<>> THEN <<>>
  ELSE IF Len(ms) = 1 THEN ms[1]
  ELSE ms[1] \o <<COMMA>> \o JoinMembers(Tail(ms))

Obj(ms) == <<LB>> \o JoinMembers(ms) \o <<RB>>

\* values a client may send; a quote inside a value is escaped on the wire
NameOf(c) == <<"user", ToString(c)>>
PlainFile == <<"notes.md">>
QuotedFile == <<"a", BS, Q, "b">>            \* the file name a"b
LongFile == <<"x270">>                       \* a file name of 270 characters, all x
LongName == <<"n70">>                        \* a user name of 70 characters, all n
PlainContent == <<"hi">>
QuotedContent == <<LB, BS, Q, "k", BS, Q, RB>>   \* the text {"k"}

\* drop the members whose key is in omit
RECURSIVE Without(_, _, _)
Without(keys, ms, omit) ==
  IF keys = <<>> THEN <<>>
  ELSE (IF Head(keys) \in omit THEN <<>> ELSE <<Head(ms)>>)
       \o Without(Tail(keys), Tail(ms), omit)

JoinText(c, omit) ==
  Obj(Without(<<"type", "username">>,
      <<StrMember("type", <<"join">>), StrMember("username", NameOf(c))>>, omit))

ContentChangeText(c, file, content, omit) ==
  Obj(Without(<<"type", "username", "file", "content">>,
      <<StrMember("type", <<"content_change">>), StrMember("username", NameOf(c)),
        StrMember("file", file), StrMember("content", content)>>, omit))

CursorMoveText(c, file, position, omit) ==
  Obj(Without(<<"type", "username", "file", "position">>,
      <<StrMember("type", <<"cursor_move">>), StrMember("username", NameOf(c)),
        StrMember("file", file), NumMember("position", ToString(position))>>, omit))

FileChangeText(file, omit) ==
  Obj(Without(<<"type", "file">>,
      <<StrMember("type", <<"file_change">>), StrMember("file", file)>>, omit))

PingText == Obj(<<StrMember("type", <<"ping">>)>>)

\* a join with the 70-character name
LongJoinText == Obj(<<StrMember("type", <<"join">>), StrMember("username", LongName)>>)

\* a message of type ping that carries an object: {"type":"ping","data":{...}}
NestedText(c) ==
  Obj(<<StrMember("type", <<"ping">>), <<Q, "data", Q, COLON>> \o JoinText(c, {})>>)

\* one read of the socket: the opcode of the frame in the buffer, whether the
\* buffer holds all the bytes the frame declares, and the payload
TextFrame(payload) == [opcode |-> 1, complete |-> TRUE, payload |-> payload]
CloseFrame == [opcode |-> 8, complete |-> TRUE, payload |-> <<>>]
PartialFrame(payload) == [opcode |-> 1, complete |-> FALSE, payload |-> payload]

CompleteTexts(c) ==
  { JoinText(c, {}),
    ContentChangeText(c, PlainFile, PlainContent, {}),
    ContentChangeText(c, PlainFile, QuotedContent, {}),
    CursorMoveText(c, PlainFile, 7, {}),
    CursorMoveText(c, QuotedFile, 3, {}),
    FileChangeText(PlainFile, {}),
    FileChangeText(LongFile, {}),
    LongJoinText }

LackingTexts(c) ==
  { JoinText(c, {"username"}), FileChangeText(PlainFile, {"file"}) }
  \cup { ContentChangeText(c, PlainFile, PlainContent, {k}) : k \in {"username", "file", "content"} }
  \cup { CursorMoveText(c, PlainFile, 7, {k}) : k \in {"username", "file", "position"} }

Frames(c) ==
  { TextFrame(t) : t \in CompleteTexts(c) \cup LackingTexts(c) \cup {PingText, NestedText(c)} }
  \cup { CloseFrame, PartialFrame(JoinText(c, {})) }

\* the upgrade request, one token per header name and value
KeyHeader == "Sec-WebSocket-Key: "
RequestWithKey == <<"GET / HTTP/1.1", "Upgrade: ", "websocket", KeyHeader, "dGhlIHNhbXBsZSBub25jZQ==">>
RequestNoKey == <<"GET / HTTP/1.1", "Upgrade: ", "websocket">>
Requests == {RequestWithKey, RequestNoKey}

\* ws_read_frame: NULL for a close frame and for a buffer shorter than the
\* frame it declares, otherwise the payload
ws_read_frame(frame) ==
  IF frame.opcode = 8 THEN [null |-> TRUE, message |-> <<>>]
  ELSE IF ~frame.complete THEN [null |-> TRUE, message |-> <<>>]
  ELSE [null |-> FALSE, message |-> frame.payload]

\* ------------------------------------------------------------------- state
VARIABLES
  clients,        \* the list headed by `clients`, as the sequence of its records
  heap,           \* the Client record of each connection
  mem,            \* "none", "live" or "freed": the malloc state of that record
  lock,           \* Client.lock: -1 not initialised or destroyed, 0 free, else holder
  clients_mutex,  \* 0 free, else the handler thread that holds it
  fd,             \* the descriptor of each connection, 0 when it has none
  srv,            \* the accept loop: its position and the connection in hand
  pc,             \* position of each handle_websocket thread
  message,        \* the decoded message a handler is working on
  out,            \* the message buffer a handler has formatted
  bc,             \* the frame of the handler's broadcast_message call
  inbox,          \* per connection, the frames written to its socket
  peerClosed,     \* the peer has closed its end
  budget,         \* peer inputs (frames, closes) the run may still take
  buffer,         \* the frame the handler's last recv put in its buffer
  seed,           \* the stream srand selected
  nrand,          \* calls of rand() so far
  codec,          \* one call of ws_send_frame and of ws_read_frame, byte by byte
  kilo            \* the terminal editor: its rows, cursor, undo and redo stacks

vars == <<clients, heap, mem, lock, clients_mutex, fd, srv, pc, message, out, bc,
          inbox, peerClosed, budget, buffer, seed, nrand, codec, kilo>>

NoClient ==
  [socket |-> 0, username |-> <<>>, current_file |-> <<>>, cursor_pos |-> 0,
   color |-> "", active |-> 0]

NoFrame == [opcode |-> 0, complete |-> FALSE, payload |-> <<>>]

NoBc == [msg |-> <<>>, exclude |-> 0, curr |-> 0, count |-> 0, sent |-> <<>>, ret |-> ""]

\* no call of the codec is being followed
NoCodec ==
  [pc |-> "idle", text |-> <<>>, wire |-> <<>>, bytes |-> 0, kind |-> "", message |-> <<>>,
   out_len |-> 0]

\* the editor is not running
NoKilo ==
  [row |-> <<>>, cx |-> 0, cy |-> 0, undoStack |-> <<>>, redoStack |-> <<>>,
   key |-> "", before |-> <<>>, keys |-> 0]

Init ==
  /\ clients = <<>>
  /\ heap = [c \in Conn |-> NoClient]
  /\ mem = [c \in Conn |-> "none"]
  /\ lock = [c \in Conn |-> -1]
  /\ clients_mutex = 0
  /\ fd = [c \in Conn |-> 0]
  /\ srv = [pc |-> "accept", conn |-> 0, req |-> <<>>]
  /\ pc = [c \in Conn |-> "idle"]
  /\ message = [c \in Conn |-> <<>>]
  /\ out = [c \in Conn |-> <<>>]
  /\ bc = [c \in Conn |-> NoBc]
  /\ inbox = [c \in Conn |-> <<>>]
  /\ peerClosed = [c \in Conn |-> FALSE]
  /\ budget = MaxInputs
  /\ buffer = [c \in Conn |-> NoFrame]
  /\ seed \in 0..(MaxSeed - 1)
  /\ nrand = 0
  /\ codec = NoCodec
  /\ kilo = NoKilo

\* rand(): the k-th value of the stream in use
rand(k) == (seed * 7 + k * 3) % 32768

\* the connection that owns descriptor s, 0 when s is not open
ConnOfFd(s) == IF \E c \in Conn : fd[c] = s /\ s # 0 THEN CHOOSE c \in Conn : fd[c] = s ELSE 0

\* accept returns the lowest descriptor not in use
LowestFreeFd == CHOOSE s \in Conn : (\A c \in Conn : fd[c] # s) /\ (\A r \in Conn : (\A c \in Conn : fd[c] # r) => s <= r)

\* ------------------------------------------------- the server's formats
\* snprintf(init_msg, ...)
init_msg(color) == Obj(<<StrMember("type", <<"init">>), StrMember("color", <<color>>)>>)

\* snprintf(join_msg, ...)
join_msg(username) ==
  Obj(<<StrMember("type", <<"user_joined">>), StrMember("username", username)>>)

\* a leave_msg formatted with the type of join_msg
leave_msg_joined(username) ==
  Obj(<<StrMember("type", <<"user_joined">>), StrMember("username", username)>>)

\* snprintf(leave_msg, ...)
leave_msg(username) ==
  Obj(<<StrMember("type", <<"user_left">>), StrMember("username", username)>>)

\* snprintf(user_data, ...) for one record of the list
user_data(cl) ==
  Obj(<<StrMember("username", cl.username), StrMember("color", <<cl.color>>),
        StrMember("file", cl.current_file), NumMember("cursor_pos", ToString(cl.cursor_pos))>>)

\* the users_list text built by walking the list from its head
RECURSIVE users_entries(_, _)
users_entries(list, h) ==
  IF list = <<>> THEN <<>>
  ELSE IF h[Head(list)].active # 0
       THEN <<user_data(h[Head(list)])>> \o users_entries(Tail(list), h)
       ELSE users_entries(Tail(list), h)

users_msg(list, h) ==
  <<LB, Q, "type", Q, COLON, Q, "users_list", Q, COMMA, Q, "users", Q, COLON, "[">>
  \o JoinMembers(users_entries(list, h)) \o <<"]", RB>>

\* snprintf(cursor_msg, ...)
cursor_msg(username, position, color, file) ==
  Obj(<<StrMember("type", <<"cursor_update">>), StrMember("username", username),
        NumMember("position", ToString(position)), StrMember("color", <<color>>),
        StrMember("file", file)>>)

\* the text between a located key and the next quote: strncpy(dst, p, end - p)
FieldText(m, key) ==
  LET p == strstr(m, KeyStr(key)) + Len(KeyStr(key))
      end == strchr(m, p, Q)
  IN SubSeq(m, p, end - 1)

\* forward_msg of the content_change branch
forward_msg(m) ==
  LET content == strstr(m, KeyStr("content")) + Len(KeyStr("content"))
      c1 == strstrFrom(m, content, <<Q, COMMA, Q>>)
      cend == IF c1 # NULL THEN c1 ELSE strstrFrom(m, content, <<Q, RB>>)
  IN <<LB>> \o StrMember("type", <<"content_update">>) \o <<COMMA>>
     \o StrMember("username", FieldText(m, "username")) \o <<COMMA>>
     \o StrMember("file", FieldText(m, "file")) \o <<COMMA>>
     \o <<Q, "content", Q, COLON, Q>> \o SubSeq(m, content, cend - 1) \o <<Q, RB>>

\* the number of characters of a text: end - p of the strncpy calls
TokLen(tok) ==
  CASE tok = "x270" -> 270
    [] tok = "n70" -> 70
    [] tok = "nnnnnn" -> 6
    [] tok = "notes.md" -> 8
    [] tok \in {"user", "User"} -> 4
    [] OTHER -> 1

RECURSIVE TextLen(_)
TextLen(s) == IF s = <<>> THEN 0 ELSE TokLen(Head(s)) + TextLen(Tail(s))

\* char current_file[256], followed in Client by cursor_pos (offset 256 from
\* the array), color (260) and active (276)
FileSize == 256
SpillInt == 2021161080          \* the int whose four bytes are x: 0x78787878
SpillColor == "xxxxxxxxxx"      \* characters 260..269 of LongFile

\* strncpy(client->current_file, file, n); client->current_file[n] = '\0' with
\* n >= 256 stores past the array
Overrun(text) == TextLen(text) >= FileSize

\* the record after the two stores when they are carried out as written: a
\* text of n < 256 characters fits; the 270 characters of LongFile run over
\* cursor_pos and the first ten bytes of color, and the terminator is stored
\* into color, so current_file read as a string is the whole text
StoreFile(rec, text) ==
  IF Overrun(text)
  THEN [rec EXCEPT !.current_file = text, !.cursor_pos = SpillInt, !.color = SpillColor]
  ELSE [rec EXCEPT !.current_file = text]

\* char username[64], followed in Client by current_file
NameSize == 64
SpillFile == <<"nnnnnn">>       \* characters 64..69 of LongName

\* strncpy(client->username, name, n); client->username[n] = '\0' with
\* n >= 64 stores past the array
NameOverrun(text) == TextLen(text) >= NameSize

\* the record after the two stores when they are carried out as written: the
\* 70 characters of LongName run over the first six bytes of current_file
\* and the terminator is stored behind them, so username read as a string is
\* the whole text and current_file is its last six characters
StoreName(rec, text) ==
  IF NameOverrun(text)
  THEN [rec EXCEPT !.username = text, !.current_file = SpillFile]
  ELSE [rec EXCEPT !.username = text]

\* --------------------------------------------------------------- sending
\* send(socket, frame, ...): the frame reaches the connection that owns the
\* descriptor; a send to a peer that has closed its end fails (result < 0)
SendResults(s) ==
  IF ConnOfFd(s) # 0 /\ ~peerClosed[ConnOfFd(s)] THEN {TRUE} ELSE {FALSE}

ws_send_frame(box, s, m, ok) ==
  IF ConnOfFd(s) = 0 THEN box
  ELSE [box EXCEPT ![ConnOfFd(s)] = Append(@, [msg |-> m, ok |-> ok])]

\* ------------------------------------------------------ websocket_server
\* accept: connections are numbered in the order they are registered (a
\* connection that fails the handshake leaves its number to the next one)
Accept ==
  /\ srv.pc = "accept"
  /\ srv.conn < MaxConn
  /\ fd' = [fd EXCEPT ![srv.conn + 1] = LowestFreeFd]
  /\ srv' = [pc |-> "request", conn |-> srv.conn + 1, req |-> <<>>]
  /\ UNCHANGED <<clients, heap, mem, lock, clients_mutex, pc, message, out, bc, inbox,
                 peerClosed, budget, buffer, seed, nrand, codec, kilo>>

\* a handshake that does not test key
KeyMissing_never(req) == FALSE

\* char* key = strstr(buffer, "Sec-WebSocket-Key: "); if (!key)
KeyMissing(req) == strstr(req, <<KeyHeader>>) = NULL

\* recv of the upgrade request, the key search, the 101 response and malloc
Handshake ==
  /\ srv.pc = "request"
  /\ LET c == srv.conn IN
     \/ \* bytes <= 0
        /\ fd' = [fd EXCEPT ![c] = 0]
        /\ srv' = [pc |-> "accept", conn |-> c - 1, req |-> <<>>]
        /\ UNCHANGED <<heap, mem, nrand>>
     \/ \E req \in Requests :
          IF KeyMissing(req)
          THEN /\ fd' = [fd EXCEPT ![c] = 0]
               /\ srv' = [pc |-> "accept", conn |-> c - 1, req |-> req]
               /\ UNCHANGED <<heap, mem, nrand>>
          ELSE /\ heap' = [heap EXCEPT ![c] =
                             [NoClient EXCEPT !.socket = fd[c],
                                              !.username = <<"User", ToString(rand(nrand + 1) % 10000)>>,
                                              !.current_file = <<>>,
                                              !.cursor_pos = 0]]
               /\ nrand' = nrand + 1
               /\ mem' = [mem EXCEPT ![c] = "live"]
               /\ srv' = [srv EXCEPT !.pc = "add_client", !.req = req]
               /\ UNCHANGED fd
  /\ UNCHANGED <<clients, lock, clients_mutex, pc, message, out, bc, inbox, peerClosed, budget, buffer, seed, codec, kilo>>

\* add_client(client), then pthread_create(handle_websocket, client)
add_client ==
  /\ srv.pc = "add_client"
  /\ clients_mutex = 0
  /\ LET c == srv.conn IN
       /\ clients' = <<c>> \o clients
       /\ heap' = [heap EXCEPT ![c].active = 1,
                               ![c].color = colors[(rand(nrand + 1) % 10) + 1]]
       /\ nrand' = nrand + 1
       /\ lock' = [lock EXCEPT ![c] = 0]
       /\ pc' = [pc EXCEPT ![c] = "init"]
  /\ srv' = [srv EXCEPT !.pc = "accept", !.req = <<>>]
  /\ UNCHANGED <<mem, clients_mutex, fd, message, out, bc, inbox, peerClosed, budget, buffer, seed, codec, kilo>>

\* ------------------------------------------------------ broadcast_message
\* the call: message and exclude_socket are set, the caller resumes at ret
BcCall(m, exclude, ret) ==
  [msg |-> m, exclude |-> exclude, curr |-> 0, count |-> 0, sent |-> <<>>, ret |-> ret]

\* broadcast_message with the test of exclude_socket left out
BcTarget_all(t, i) == heap[clients[i]].active # 0

\* does the walk send to the record at index i of the list
BcTarget(t, i) ==
  heap[clients[i]].socket # bc[t].exclude /\ heap[clients[i]].active # 0

\* a walk that ends after a send to a peer that has closed
BcNextTarget_stop(t, i) ==
  LET hits == { j \in i..Len(clients) : BcTarget(t, j) }
  IN IF i > 1 /\ BcTarget(t, i - 1) /\ peerClosed[clients[i - 1]] THEN 0
     ELSE IF hits = {} THEN 0 ELSE CHOOSE j \in hits : \A k \in hits : j <= k

\* index of the first record at or after i that the walk sends to, 0 if none
BcNextTarget(t, i) ==
  LET hits == { j \in i..Len(clients) : BcTarget(t, j) }
  IN IF hits = {} THEN 0 ELSE CHOOSE j \in hits : \A k \in hits : j <= k

\* The walk from index i of the list, as far as it goes without waiting:
\* past the records it does not send to, either to the end of the list or to
\* the next record it sends to and pthread_mutex_lock(&curr->lock).  lk is
\* the state of the client locks and b the frame of the call, as the step
\* before the walk leaves them.
BcAdvance(t, i, lk, b) ==
  LET j == BcNextTarget(t, i) IN
  /\ clients_mutex' = t
  /\ IF j = 0
     THEN /\ lock' = lk
          /\ bc' = [bc EXCEPT ![t] = [b EXCEPT !.curr = Len(clients) + 1]]
          /\ pc' = [pc EXCEPT ![t] = "bc_unlock"]
     ELSE /\ IF lk[clients[j]] = 0
             THEN /\ lock' = [lk EXCEPT ![clients[j]] = t]
                  /\ pc' = [pc EXCEPT ![t] = "bc_send"]
             ELSE /\ lock' = lk
                  /\ pc' = [pc EXCEPT ![t] = "bc_walk"]
          /\ bc' = [bc EXCEPT ![t] = [b EXCEPT !.curr = j]]

\* a broadcast_message that walks the list without clients_mutex
BcLock_nomutex(t) ==
  /\ pc[t] = "bc_lock"
  /\ BcAdvance(t, 1, lock, bc[t])
  /\ UNCHANGED <<clients, heap, mem, fd, srv, message, out, inbox, peerClosed, budget, buffer,
                 seed, nrand, codec, kilo>>

\* pthread_mutex_lock(&clients_mutex); curr = clients; the walk begins
BcLock(t) ==
  /\ pc[t] = "bc_lock"
  /\ clients_mutex = 0
  /\ BcAdvance(t, 1, lock, bc[t])
  /\ UNCHANGED <<clients, heap, mem, fd, srv, message, out, inbox, peerClosed, budget, buffer,
                 seed, nrand, codec, kilo>>

\* pthread_mutex_lock(&curr->lock) returns after a wait
BcWalk(t) ==
  /\ pc[t] = "bc_walk"
  /\ lock[clients[bc[t].curr]] = 0
  /\ lock' = [lock EXCEPT ![clients[bc[t].curr]] = t]
  /\ pc' = [pc EXCEPT ![t] = "bc_send"]
  /\ UNCHANGED <<clients, heap, mem, clients_mutex, fd, srv, message, out, bc, inbox,
                 peerClosed, budget, buffer, seed, nrand, codec, kilo>>

\* ws_send_frame(curr->socket, message) returns; count++; unlock of
\* curr->lock; curr = curr->next; the walk goes on
BcSend(t) ==
  /\ pc[t] = "bc_send"
  /\ LET target == clients[bc[t].curr] IN
     \E ok \in SendResults(heap[target].socket) :
       /\ inbox' = ws_send_frame(inbox, heap[target].socket, bc[t].msg, ok)
       /\ BcAdvance(t, bc[t].curr + 1, [lock EXCEPT ![target] = 0],
                     [bc[t] EXCEPT !.count = @ + 1, !.sent = Append(@, target)])
  /\ UNCHANGED <<clients, heap, mem, fd, srv, message, out, peerClosed, budget, buffer, seed, nrand, codec, kilo>>

\* pthread_mutex_unlock(&clients_mutex) and the return to the caller, which
\* goes on to free(message) when the call was made from the read loop
BcUnlock(t) ==
  /\ pc[t] = "bc_unlock"
  /\ clients_mutex' = 0
  /\ bc' = [bc EXCEPT ![t] = NoBc]
  /\ message' = [message EXCEPT ![t] = <<>>]
  /\ pc' = [pc EXCEPT ![t] = bc[t].ret]
  /\ UNCHANGED <<clients, heap, mem, lock, fd, srv, out, inbox, peerClosed, budget, buffer,
                 seed, nrand, codec, kilo>>

\* ----------------------------------------------------------- remove_client
\* remove_client that unlinks nothing
RemoveFirst_none(list, h, socket) == list

RECURSIVE RemoveFirst(_, _, _)
RemoveFirst(list, h, socket) ==
  IF list = <<>> THEN <<>>
  ELSE IF h[Head(list)].socket = socket THEN Tail(list)
  ELSE <<Head(list)>> \o RemoveFirst(Tail(list), h, socket)

\* a walk that stops at the head when no record has the socket
FirstWithSocket_head(list, h, socket) ==
  LET hits == { i \in 1..Len(list) : h[list[i]].socket = socket }
  IN IF hits = {} THEN (IF list = <<>> THEN 0 ELSE list[1])
     ELSE list[CHOOSE i \in hits : \A k \in hits : i <= k]

\* the record the walk of remove_client stops at, 0 if none
FirstWithSocket(list, h, socket) ==
  LET hits == { i \in 1..Len(list) : h[list[i]].socket = socket }
  IN IF hits = {} THEN 0 ELSE list[CHOOSE i \in hits : \A k \in hits : i <= k]

\* remove_client without pthread_mutex_lock(&clients_mutex)
remove_client_unlocked(t) ==
  /\ pc[t] = "remove"
  /\ LET socket == heap[t].socket
         temp == FirstWithSocket(clients, heap, socket)
     IN /\ clients' = RemoveFirst(clients, heap, socket)
        /\ lock' = [lock EXCEPT ![temp] = -1]
        /\ fd' = [c \in Conn |-> IF fd[c] = heap[temp].socket THEN 0 ELSE fd[c]]
        /\ mem' = [mem EXCEPT ![temp] = "freed"]
        /\ heap' = [heap EXCEPT ![temp] = NoClient]
        /\ inbox' = [inbox EXCEPT ![ConnOfFd(heap[temp].socket)] = <<>>]
  /\ pc' = [pc EXCEPT ![t] = "done"]
  /\ UNCHANGED <<clients_mutex, srv, message, out, bc, peerClosed, budget, buffer, seed, nrand, codec, kilo>>

remove_client(t) ==
  /\ pc[t] = "remove"
  /\ clients_mutex = 0
  /\ LET socket == heap[t].socket
         temp == FirstWithSocket(clients, heap, socket)
     IN IF temp = 0
        THEN UNCHANGED <<clients, lock, fd, mem, heap, inbox>>
        ELSE /\ clients' = RemoveFirst(clients, heap, socket)
             /\ lock' = [lock EXCEPT ![temp] = -1]
             /\ fd' = [c \in Conn |-> IF fd[c] = heap[temp].socket THEN 0 ELSE fd[c]]
             /\ mem' = [mem EXCEPT ![temp] = "freed"]
             /\ heap' = [heap EXCEPT ![temp] = NoClient]
             /\ inbox' = [inbox EXCEPT ![ConnOfFd(heap[temp].socket)] = <<>>]
  /\ pc' = [pc EXCEPT ![t] = "done"]
  /\ UNCHANGED <<clients_mutex, srv, message, out, bc, peerClosed, budget, buffer, seed, nrand, codec, kilo>>

\* -------------------------------------------------------- handle_websocket
\* a handler that calls broadcast_message(join_msg) without the send of init_msg
InitSend_nosend(t) ==
  /\ pc[t] = "init"
  /\ bc' = [bc EXCEPT ![t] = BcCall(join_msg(heap[t].username), heap[t].socket, "users_list")]
  /\ pc' = [pc EXCEPT ![t] = "bc_lock"]
  /\ UNCHANGED <<clients, heap, mem, lock, clients_mutex, fd, srv, message, out, inbox,
                 peerClosed, budget, buffer, seed, nrand, codec, kilo>>

\* ws_send_frame(socket, init_msg), then the call broadcast_message(join_msg)
InitSend(t) ==
  /\ pc[t] = "init"
  /\ \E ok \in SendResults(heap[t].socket) :
       inbox' = ws_send_frame(inbox, heap[t].socket, init_msg(heap[t].color), ok)
  /\ bc' = [bc EXCEPT ![t] = BcCall(join_msg(heap[t].username), heap[t].socket, "users_list")]
  /\ pc' = [pc EXCEPT ![t] = "bc_lock"]
  /\ UNCHANGED <<clients, heap, mem, lock, clients_mutex, fd, srv, message, out,
                 peerClosed, budget, buffer, seed, nrand, codec, kilo>>

\* the walk that builds users_msg, from lock to unlock of clients_mutex
UsersList(t) ==
  /\ pc[t] = "users_list"
  /\ clients_mutex = 0
  /\ out' = [out EXCEPT ![t] = users_msg(clients, heap)]
  /\ pc' = [pc EXCEPT ![t] = "users_send"]
  /\ UNCHANGED <<clients, heap, mem, lock, clients_mutex, fd, srv, message, bc, inbox,
                 peerClosed, budget, buffer, seed, nrand, codec, kilo>>

\* ws_send_frame(socket, users_msg)
UsersSend(t) ==
  /\ pc[t] = "users_send"
  /\ \E ok \in SendResults(heap[t].socket) :
       inbox' = ws_send_frame(inbox, heap[t].socket, out[t], ok)
  /\ out' = [out EXCEPT ![t] = <<>>]
  /\ pc' = [pc EXCEPT ![t] = "recv"]
  /\ UNCHANGED <<clients, heap, mem, lock, clients_mutex, fd, srv, message, bc,
                 peerClosed, budget, buffer, seed, nrand, codec, kilo>>

\* which branch of the if / else-if chain a decoded message takes, and
\* whether the branch found the fields it looks for
Has(m, pat) == strstr(m, pat) # NULL

\* a cursor_move branch that takes the update when only pos and file are found
Branch_loose(m) ==
  IF Has(m, TypeIs("join")) THEN
       IF Has(m, KeyStr("username"))
          /\ strchr(m, strstr(m, KeyStr("username")) + Len(KeyStr("username")), Q) # NULL
       THEN "join" ELSE "none"
  ELSE IF Has(m, TypeIs("content_change")) THEN
       IF Has(m, KeyStr("username")) /\ Has(m, KeyStr("file")) /\ Has(m, KeyStr("content"))
       THEN "content_change" ELSE "none"
  ELSE IF Has(m, TypeIs("cursor_move")) THEN
       IF Has(m, KeyNum("position")) /\ Has(m, KeyStr("file"))
       THEN "cursor_move" ELSE "none"
  ELSE IF Has(m, TypeIs("file_change")) THEN
       IF Has(m, KeyStr("file")) THEN "file_change" ELSE "none"
  ELSE "none"

Branch(m) ==
  IF Has(m, TypeIs("join")) THEN
       IF Has(m, KeyStr("username"))
          /\ strchr(m, strstr(m, KeyStr("username")) + Len(KeyStr("username")), Q) # NULL
       THEN "join" ELSE "none"
  ELSE IF Has(m, TypeIs("content_change")) THEN
       IF Has(m, KeyStr("username")) /\ Has(m, KeyStr("file")) /\ Has(m, KeyStr("content"))
       THEN "content_change" ELSE "none"
  ELSE IF Has(m, TypeIs("cursor_move")) THEN
       IF Has(m, KeyNum("position")) /\ Has(m, KeyStr("file")) /\ Has(m, KeyStr("username"))
       THEN "cursor_move" ELSE "none"
  ELSE IF Has(m, TypeIs("file_change")) THEN
       IF Has(m, KeyStr("file")) THEN "file_change" ELSE "none"
  ELSE "none"

\* recv returned bytes <= 0: break, format leave_msg, call broadcast_message
RecvEnd(t) ==
  /\ pc[t] = "recv"
  /\ peerClosed[t]
  /\ bc' = [bc EXCEPT ![t] = BcCall(leave_msg(heap[t].username), heap[t].socket, "remove")]
  /\ pc' = [pc EXCEPT ![t] = "bc_lock"]
  /\ UNCHANGED <<clients, heap, mem, lock, clients_mutex, fd, srv, message, out, inbox,
                 peerClosed, budget, buffer, seed, nrand, codec, kilo>>

\* recv returned a buffer: decode it and take the branch of its type, up to
\* the branch's first lock
RecvFrame(t) ==
  /\ pc[t] = "recv"
  /\ ~peerClosed[t]
  /\ budget > 0
  /\ budget' = budget - 1
  /\ \E frame \in Frames(t) :
       LET r == ws_read_frame(frame)
           b == IF r.null THEN "none" ELSE Branch(r.message)
       IN /\ buffer' = [buffer EXCEPT ![t] = frame]
          /\ CASE b = "none" ->
                 /\ pc' = [pc EXCEPT ![t] = "recv"]
                 /\ UNCHANGED <<message, bc>>
            [] b = "content_change" ->
                 /\ message' = [message EXCEPT ![t] = r.message]
                 /\ bc' = [bc EXCEPT ![t] = BcCall(forward_msg(r.message), heap[t].socket, "recv")]
                 /\ pc' = [pc EXCEPT ![t] = "bc_lock"]
            [] OTHER ->
                 /\ message' = [message EXCEPT ![t] = r.message]
                 /\ pc' = [pc EXCEPT ![t] = b]
                 /\ UNCHANGED bc
  /\ UNCHANGED <<clients, heap, mem, lock, clients_mutex, fd, srv, out, inbox, peerClosed,
                 seed, nrand, codec, kilo>>

\* a join branch that stores without pthread_mutex_lock(&client->lock)
JoinUpdate_nolock(t) ==
  /\ pc[t] = "join"
  /\ heap' = [heap EXCEPT ![t] = StoreName(@, FieldText(message[t], "username"))]
  /\ message' = [message EXCEPT ![t] = <<>>]
  /\ pc' = [pc EXCEPT ![t] = "recv"]
  /\ UNCHANGED <<clients, mem, lock, clients_mutex, fd, srv, out, bc, inbox,
                 peerClosed, budget, buffer, seed, nrand, codec, kilo>>

\* join: lock, strncpy into username, unlock; free(message)
JoinUpdate(t) ==
  /\ pc[t] = "join"
  /\ lock[t] = 0
  /\ heap' = [heap EXCEPT ![t] = StoreName(@, FieldText(message[t], "username"))]
  /\ message' = [message EXCEPT ![t] = <<>>]
  /\ pc' = [pc EXCEPT ![t] = "recv"]
  /\ UNCHANGED <<clients, mem, lock, clients_mutex, fd, srv, out, bc, inbox,
                 peerClosed, budget, buffer, seed, nrand, codec, kilo>>

\* a cursor_move that stores the position into every record
CursorPos_shared(t) ==
  /\ pc[t] = "cursor_move"
  /\ lock[t] = 0
  /\ lock' = [lock EXCEPT ![t] = t]
  /\ heap' = [c \in Conn |-> [heap[c] EXCEPT !.cursor_pos =
                atoi(message[t], strstr(message[t], KeyNum("position")) + Len(KeyNum("position")))]]
  /\ pc' = [pc EXCEPT ![t] = "cursor_rest"]
  /\ UNCHANGED <<clients, mem, clients_mutex, fd, srv, message, out, bc, inbox,
                 peerClosed, budget, buffer, seed, nrand, codec, kilo>>

\* cursor_move: lock and the store to cursor_pos
CursorPos(t) ==
  /\ pc[t] = "cursor_move"
  /\ lock[t] = 0
  /\ lock' = [lock EXCEPT ![t] = t]
  /\ heap' = [heap EXCEPT ![t].cursor_pos =
                atoi(message[t], strstr(message[t], KeyNum("position")) + Len(KeyNum("position")))]
  /\ pc' = [pc EXCEPT ![t] = "cursor_rest"]
  /\ UNCHANGED <<clients, mem, clients_mutex, fd, srv, message, out, bc, inbox,
                 peerClosed, budget, buffer, seed, nrand, codec, kilo>>

\* a cursor_move branch that calls broadcast_message before the unlock
CursorRest_keeplock(t) ==
  /\ pc[t] = "cursor_rest"
  /\ heap' = [heap EXCEPT ![t] = StoreName(StoreFile(@, FieldText(message[t], "file")),
                                            FieldText(message[t], "username"))]
  /\ bc' = [bc EXCEPT ![t] =
              BcCall(cursor_msg(heap'[t].username, heap[t].cursor_pos, heap'[t].color,
                                heap'[t].current_file),
                     heap[t].socket, "recv")]
  /\ pc' = [pc EXCEPT ![t] = "bc_lock"]
  /\ UNCHANGED <<clients, mem, lock, clients_mutex, fd, srv, message, out, inbox,
                 peerClosed, budget, buffer, seed, nrand, codec, kilo>>

\* cursor_move: the strncpy into current_file and into username, unlock,
\* format cursor_msg and call broadcast_message
CursorRest(t) ==
  /\ pc[t] = "cursor_rest"
  /\ heap' = [heap EXCEPT ![t] = StoreName(StoreFile(@, FieldText(message[t], "file")),
                                            FieldText(message[t], "username"))]
  /\ lock' = [lock EXCEPT ![t] = 0]
  /\ bc' = [bc EXCEPT ![t] =
              BcCall(cursor_msg(heap'[t].username, heap[t].cursor_pos, heap'[t].color,
                                heap'[t].current_file),
                     heap[t].socket, "recv")]
  /\ pc' = [pc EXCEPT ![t] = "bc_lock"]
  /\ UNCHANGED <<clients, mem, clients_mutex, fd, srv, message, out, inbox,
                 peerClosed, budget, buffer, seed, nrand, codec, kilo>>

\* file_change: lock, strncpy into current_file, unlock; free(message)
FileUpdate(t) ==
  /\ pc[t] = "file_change"
  /\ lock[t] = 0
  /\ heap' = [heap EXCEPT ![t] = StoreFile(@, FieldText(message[t], "file"))]
  /\ message' = [message EXCEPT ![t] = <<>>]
  /\ pc' = [pc EXCEPT ![t] = "recv"]
  /\ UNCHANGED <<clients, mem, lock, clients_mutex, fd, srv, out, bc, inbox,
                 peerClosed, budget, buffer, seed, nrand, codec, kilo>>

\* The stores past current_file are undefined behaviour.  Besides carrying
\* them out as written (StoreFile), a build whose strncpy checks the size of
\* the destination ends the process at the call: every thread stops where
\* it is.
FileOverrunAbort(t) ==
  /\ \/ pc[t] = "file_change" /\ lock[t] = 0
     \/ pc[t] = "cursor_rest"
  /\ Overrun(FieldText(message[t], "file"))
  /\ pc' = [c \in Conn |-> IF pc[c] \in {"idle", "done"} THEN pc[c] ELSE "abort"]
  /\ srv' = [srv EXCEPT !.pc = "abort"]
  /\ UNCHANGED <<clients, heap, mem, lock, clients_mutex, fd, message, out, bc, inbox,
                 peerClosed, budget, buffer, seed, nrand, codec, kilo>>

\* The same for the stores past username in the join branch.
NameOverrunAbort(t) ==
  /\ pc[t] = "join"
  /\ lock[t] = 0
  /\ NameOverrun(FieldText(message[t], "username"))
  /\ pc' = [c \in Conn |-> IF pc[c] \in {"idle", "done"} THEN pc[c] ELSE "abort"]
  /\ srv' = [srv EXCEPT !.pc = "abort"]
  /\ UNCHANGED <<clients, heap, mem, lock, clients_mutex, fd, message, out, bc, inbox,
                 peerClosed, budget, buffer, seed, nrand, codec, kilo>>

\* ------------------------------------------------------------- environment
\* the peer closes its end of an upgraded connection while the handler waits
\* in recv
PeerClose(c) ==
  /\ pc[c] = "recv"
  /\ ~peerClosed[c]
  /\ budget > 0
  /\ budget' = budget - 1
  /\ peerClosed' = [peerClosed EXCEPT ![c] = TRUE]
  /\ UNCHANGED <<clients, heap, mem, lock, clients_mutex, fd, srv, pc, message, out, bc,
                 inbox, buffer, seed, nrand, codec, kilo>>

Handler(t) ==
  \/ InitSend(t) \/ UsersList(t) \/ UsersSend(t)
  \/ RecvEnd(t) \/ RecvFrame(t)
  \/ JoinUpdate(t) \/ CursorPos(t) \/ CursorRest(t) \/ FileUpdate(t) \/ FileOverrunAbort(t)
  \/ NameOverrunAbort(t)
  \/ BcLock(t) \/ BcWalk(t) \/ BcSend(t) \/ BcUnlock(t)
  \/ remove_client(t)

\* the steps of handler t that wait for no input from the peer
Run(t) ==
  \/ InitSend(t) \/ UsersList(t) \/ UsersSend(t)
  \/ RecvEnd(t)
  \/ JoinUpdate(t) \/ CursorPos(t) \/ CursorRest(t) \/ FileUpdate(t)
  \/ BcLock(t) \/ BcWalk(t) \/ BcSend(t) \/ BcUnlock(t)
  \/ remove_client(t)

Next ==
  \/ Accept \/ Handshake \/ add_client
  \/ \E t \in Conn : Handler(t)
  \/ \E c \in Conn : PeerClose(c)

Spec == Init /\ [][Next]_vars

\* ---------------------------------------------- sessions in their read loop
\* The server after ActiveSessions connections have been accepted and
\* registered one after the other, each handler having sent init, broadcast
\* user_joined and sent users_list before the next connection came: every
\* handler waits in recv.  The k-th connection took the rand() calls 2k-1
\* (username) and 2k (color).
StartRec(c) ==
  [socket |-> c, username |-> <<"User", ToString(rand(2 * c - 1) % 10000)>>,
   current_file |-> <<>>, cursor_pos |-> 0,
   color |-> colors[(rand(2 * c) % 10) + 1], active |-> 1]

\* the list when c was the last one added: c, c-1, ..., 1
RECURSIVE DownFrom(_)
DownFrom(c) == IF c = 0 THEN <<>> ELSE <<c>> \o DownFrom(c - 1)

\* the user_joined texts of the connections k > c, in the order they came
RECURSIVE JoinedAfter(_, _)
JoinedAfter(c, n) ==
  IF c >= n THEN <<>>
  ELSE <<[msg |-> join_msg(StartRec(c + 1).username), ok |-> TRUE]>> \o JoinedAfter(c + 1, n)

StartInbox(c, n) ==
  <<[msg |-> init_msg(StartRec(c).color), ok |-> TRUE],
    [msg |-> users_msg(DownFrom(c), [k \in Conn |-> StartRec(k)]), ok |-> TRUE]>>
  \o JoinedAfter(c, n)
  \* hence: frames sent to c while the later connections came

ActiveInit ==
  LET n == ActiveSessions
      S == 1..n
  IN
  /\ clients = DownFrom(n)
  /\ seed \in 0..(MaxSeed - 1)
  /\ heap = [c \in Conn |-> IF c \in S THEN StartRec(c) ELSE NoClient]
  /\ mem = [c \in Conn |-> IF c \in S THEN "live" ELSE "none"]
  /\ lock = [c \in Conn |-> IF c \in S THEN 0 ELSE -1]
  /\ clients_mutex = 0
  /\ fd = [c \in Conn |-> IF c \in S THEN c ELSE 0]
  /\ srv = [pc |-> "accept", conn |-> n, req |-> <<>>]
  /\ pc = [c \in Conn |-> IF c \in S THEN "recv" ELSE "idle"]
  /\ message = [c \in Conn |-> <<>>]
  /\ out = [c \in Conn |-> <<>>]
  /\ bc = [c \in Conn |-> NoBc]
  /\ inbox = [c \in Conn |-> IF c \in S THEN StartInbox(c, n) ELSE <<>>]
  /\ peerClosed = [c \in Conn |-> FALSE]
  /\ budget = MaxActiveInputs
  /\ buffer = [c \in Conn |-> NoFrame]
  /\ nrand = 2 * n
  /\ codec = NoCodec
  /\ kilo = NoKilo

\* the handlers from their read loop on; no further connection comes
HandlerActive(t) ==
  \/ RecvEnd(t) \/ RecvFrame(t)
  \/ JoinUpdate(t) \/ CursorPos(t) \/ CursorRest(t) \/ FileUpdate(t) \/ FileOverrunAbort(t)
  \/ NameOverrunAbort(t)
  \/ BcLock(t) \/ BcWalk(t) \/ BcSend(t) \/ BcUnlock(t)
  \/ remove_client(t)

NextActive ==
  \/ \E t \in Conn : HandlerActive(t)
  \/ \E c \in Conn : PeerClose(c)

SpecActive == ActiveInit /\ [][NextActive]_vars

\* the steps of handler t that wait for no input from the peer: every thread
\* that can run is scheduled, every send returns, and a thread waiting for a
\* mutex gets it once it stays free
RunActive(t) ==
  \/ RecvEnd(t)
  \/ JoinUpdate(t) \/ CursorPos(t) \/ CursorRest(t) \/ FileUpdate(t) \/ FileOverrunAbort(t)
  \/ NameOverrunAbort(t)
  \/ BcLock(t) \/ BcWalk(t) \/ BcSend(t) \/ BcUnlock(t)
  \/ remove_client(t)

FairActive == SpecActive /\ \A t \in Conn : WF_vars(RunActive(t))

\* ------------------------------------------- sessions that came together
\* The server after MaxConn connections have been accepted and registered
\* before any of their handler threads has run: pthread_create has returned
\* for each, and every handler is at its first statement.
ArrivedInit ==
  /\ clients = DownFrom(MaxConn)
  /\ seed \in 0..(MaxSeed - 1)
  /\ heap = [c \in Conn |-> StartRec(c)]
  /\ mem = [c \in Conn |-> "live"]
  /\ lock = [c \in Conn |-> 0]
  /\ clients_mutex = 0
  /\ fd = [c \in Conn |-> c]
  /\ srv = [pc |-> "accept", conn |-> MaxConn, req |-> <<>>]
  /\ pc = [c \in Conn |-> "init"]
  /\ message = [c \in Conn |-> <<>>]
  /\ out = [c \in Conn |-> <<>>]
  /\ bc = [c \in Conn |-> NoBc]
  /\ inbox = [c \in Conn |-> <<>>]
  /\ peerClosed = [c \in Conn |-> FALSE]
  /\ budget = MaxInputs
  /\ buffer = [c \in Conn |-> NoFrame]
  /\ nrand = 2 * MaxConn
  /\ codec = NoCodec
  /\ kilo = NoKilo

NextArrived ==
  \/ \E t \in Conn : Handler(t)
  \/ \E c \in Conn : PeerClose(c)

SpecArrived == ArrivedInit /\ [][NextArrived]_vars

\* ========================================================= the frame codec
\* ws_send_frame and ws_read_frame on the bytes themselves.  A text and a
\* buffer are sequences of bytes 0..255; position k of the C array is element
\* k + 1 of the sequence.
BUFFER_SIZE == 65536

\* the largest text the inputs are built from by enumeration
MaxShort == 2

\* a ^ b on bytes
RECURSIVE Xor(_, _)
Xor(a, b) ==
  IF a = 0 THEN b
  ELSE IF b = 0 THEN a
  ELSE ((a + b) % 2) + 2 * Xor(a \div 2, b \div 2)

\* how the build treats what the C standard leaves undefined in ws_send_frame:
\* the memcpy past the end of frame[] ("plain": the bytes land in the stack
\* behind the array and send() reads them back; "canary": the same, and the
\* stack check ends the process when the function returns; "fortified": the
\* checked memcpy ends the process before anything is sent), and the shift of
\* the int len by 32 bits or more ("zero": the result is 0; "mod32": the
\* count is taken modulo 32, as the x86 shift instruction does)
Builds == [frame : {"plain", "canary", "fortified"}, shift : {"zero", "mod32"}]

\* (len >> n) for the int len >= 0
ShiftRight(len, n, shift) ==
  IF n < 32 THEN len \div (2 ^ n)
  ELSE IF shift = "zero" THEN 0
  ELSE len \div (2 ^ (n % 32))

\* frame[1..idx-1]: the length bytes ws_send_frame writes after 0x81
LenField(len, shift) ==
  IF len < 126 THEN <<len>>
  ELSE IF len < 65536 THEN <<126, (len \div 256) % 256, len % 256>>
  ELSE <<127>> \o [k \in 1..8 |-> ShiftRight(len, (8 - k) * 8, shift) % 256]

\* ws_send_frame(socket, message): what reaches send(), and whether the
\* process is alive after the call
send_frame(msg, build) ==
  LET len == Len(msg)
      head == <<129>> \o LenField(len, build.shift)
      idx == Len(head)
  IN IF idx + len <= BUFFER_SIZE
     THEN [wire |-> head \o msg, sent |-> TRUE, alive |-> TRUE]
     ELSE CASE build.frame = "fortified" -> [wire |-> <<>>, sent |-> FALSE, alive |-> FALSE]
            [] build.frame = "canary" -> [wire |-> head \o msg, sent |-> TRUE, alive |-> FALSE]
            [] OTHER -> [wire |-> head \o msg, sent |-> TRUE, alive |-> TRUE]

\* len = (len << 8) | b on the 32-bit int len: the top byte is shifted out
\* and bit 31 of the result is the sign
Shl8Or(len, b) ==
  LET low == len % 16777216
      top == low \div 8388608
      rest == low % 8388608
  IN ((rest * 256 + b) - top * 2147483647) - top

\* the loop over buffer[2 + i], i = 0..7
RECURSIVE Len64(_, _, _)
Len64(buf, i, len) ==
  IF i = 8 THEN len ELSE Len64(buf, i + 1, Shl8Or(len, buf[3 + i]))

NullFrame == [kind |-> "null", message |-> <<>>, out_len |-> 0]

\* ws_read_frame from the mask on: len is the length read, idx0 the index
\* behind the length bytes.  The results the call can have, as a set.
ReadPayload(buf, bytes, masked, len, idx0) ==
  IF masked /\ bytes < idx0 + 4 THEN {NullFrame}
  ELSE LET idx == IF masked THEN idx0 + 4 ELSE idx0
           mask == [k \in 1..4 |-> IF masked THEN buf[idx0 + k] ELSE 0]
       IN IF bytes < idx + len THEN {NullFrame}
          ELSE IF len < -1
          THEN \* malloc(len + 1) of a negative int fails, message[len] faults
               {[kind |-> "crash", message |-> <<>>, out_len |-> 0]}
          ELSE IF len = -1
          THEN \* malloc(0), then message[-1] = '\0' in front of the block
               {[kind |-> "crash", message |-> <<>>, out_len |-> 0],
                [kind |-> "message", message |-> <<>>, out_len |-> len]}
          ELSE {[kind |-> "message",
                 message |-> [i \in 1..len |->
                                IF masked THEN Xor(buf[idx + i], mask[((i - 1) % 4) + 1])
                                ELSE buf[idx + i]],
                 out_len |-> len]}

\* ws_read_frame(buffer, bytes, &out_len)
read_frame(buf, bytes) ==
  IF bytes < 2 THEN {NullFrame}
  ELSE IF buf[1] % 16 = 8 THEN {NullFrame}
  ELSE LET masked == (buf[2] \div 128) = 1
           len == buf[2] % 128
       IN IF len = 126
          THEN IF bytes < 4 THEN {NullFrame}
               ELSE ReadPayload(buf, bytes, masked, buf[3] * 256 + buf[4], 4)
          ELSE IF len = 127
          THEN IF bytes < 10 THEN {NullFrame}
               ELSE ReadPayload(buf, bytes, masked, Len64(buf, 0, 0), 10)
          ELSE ReadPayload(buf, bytes, masked, len, 2)

\* ------------------------------------------------------ the codec's inputs
\* n bytes of printable text, starting at the character `from`
Fill(n, from) == [i \in 1..n |-> 32 + ((from + i) % 95)]

\* the lengths at the edges of the three tiers and of frame[]
TextLens == {0, 1, 125, 126, 127, 65532, 65533, 65535, 65536}

RECURSIVE ShortTexts(_)
ShortTexts(n) ==
  IF n = 0 THEN {<<>>}
  ELSE LET less == ShortTexts(n - 1)
       IN less \cup { <<b>> \o t : b \in {65, 195}, t \in { u \in less : Len(u) = n - 1 } }

Texts == ShortTexts(MaxShort) \cup { Fill(n, 0) : n \in TextLens }

\* the masking key of the frames a peer sends
Mask == <<55, 250, 33, 61>>

\* 64-bit length fields: 5, 65536, 2^32 + 5, 2^31 and 2^64 - 1
Declared64 ==
  { <<0, 0, 0, 0, 0, 0, 0, 5>>, <<0, 0, 0, 0, 0, 1, 0, 0>>, <<0, 0, 0, 1, 0, 0, 0, 5>>,
    <<0, 0, 0, 0, 128, 0, 0, 0>>, <<255, 255, 255, 255, 255, 255, 255, 255>> }

\* length byte and extended length: 0, 3, 125 inline; 126, 3, 300 in 16 bits
LengthFields ==
  {<<0>>, <<3>>, <<125>>, <<126, 0, 126>>, <<126, 0, 3>>, <<126, 1, 44>>}
    \cup { <<127>> \o d : d \in Declared64 }

\* first bytes: a text frame, a close frame, a text fragment without FIN
FirstBytes == {129, 136, 1}

\* payload bytes that follow the header in the buffer
Haves == {0, 2, 3, 5, 125, 126, 300}

\* how many bytes recv() returned when it returned fewer than the frame has
Cuts == {0, 1, 3, 9, 12}

WireOf(first, m, field, have) ==
  <<first, m * 128 + field[1]>> \o Tail(field) \o (IF m = 1 THEN Mask ELSE <<>>)
    \o Fill(have, 7)

Wires ==
  { WireOf(first, m, field, have) :
      first \in FirstBytes, m \in {0, 1}, field \in LengthFields, have \in Haves }

\* a text about to be sent
CodecText(t) == [NoCodec EXCEPT !.pc = "text", !.text = t]

\* a buffer that recv() filled with `bytes` bytes of a peer's frame
CodecWire(w, bytes) == [NoCodec EXCEPT !.pc = "wire", !.wire = w, !.bytes = bytes]

CodecInit ==
  /\ clients = <<>>
  /\ heap = [c \in Conn |-> NoClient]
  /\ mem = [c \in Conn |-> "none"]
  /\ lock = [c \in Conn |-> -1]
  /\ clients_mutex = 0
  /\ fd = [c \in Conn |-> 0]
  /\ srv = [pc |-> "accept", conn |-> 0, req |-> <<>>]
  /\ pc = [c \in Conn |-> "idle"]
  /\ message = [c \in Conn |-> <<>>]
  /\ out = [c \in Conn |-> <<>>]
  /\ bc = [c \in Conn |-> NoBc]
  /\ inbox = [c \in Conn |-> <<>>]
  /\ peerClosed = [c \in Conn |-> FALSE]
  /\ budget = 0
  /\ buffer = [c \in Conn |-> NoFrame]
  /\ seed = 0
  /\ nrand = 0
  /\ kilo = NoKilo
  /\ \/ \E t \in Texts : codec = CodecText(t)
     \/ \E w \in Wires : \E bytes \in {Len(w)} \cup { k \in Cuts : k < Len(w) } :
          codec = CodecWire(w, bytes)

\* one call of ws_send_frame with the text; the peer's buffer holds what was
\* sent
SendFrame ==
  /\ codec.pc = "text"
  /\ \E build \in Builds :
       LET r == send_frame(codec.text, build)
       IN codec' = [codec EXCEPT !.pc = IF r.sent THEN (IF r.alive THEN "sent" ELSE "sent_abort")
                                        ELSE "abort",
                                 !.wire = r.wire, !.bytes = Len(r.wire)]
  /\ UNCHANGED <<clients, heap, mem, lock, clients_mutex, fd, srv, pc, message, out, bc,
                 inbox, peerClosed, budget, buffer, seed, nrand, kilo>>

\* one call of ws_read_frame on the buffer
ReadFrame ==
  /\ codec.pc \in {"wire", "sent", "sent_abort"}
  /\ \E r \in read_frame(codec.wire, codec.bytes) :
       codec' = [codec EXCEPT !.pc = IF codec.pc = "wire" THEN "read" ELSE "round",
                              !.kind = r.kind, !.message = r.message, !.out_len = r.out_len]
  /\ UNCHANGED <<clients, heap, mem, lock, clients_mutex, fd, srv, pc, message, out, bc,
                 inbox, peerClosed, budget, buffer, seed, nrand, kilo>>

CodecNext == SendFrame \/ ReadFrame

CodecSpec == CodecInit /\ [][CodecNext]_vars

\* ================================================================ claims
InList(c) == \E i \in 1..Len(clients) : clients[i] = c
ListSet == { clients[i] : i \in 1..Len(clients) }
NoDup(q) == \A i, j \in 1..Len(q) : i # j => q[i] # q[j]
SeqSet(q) == { q[i] : i \in 1..Len(q) }
Count(box, m) == Cardinality({ i \in 1..Len(box) : box[i].msg = m })
CountType(box, kind) == Cardinality({ i \in 1..Len(box) : Has(box[i].msg, TypeIs(kind)) })

\* ---- C1
RegistryInv ==
  /\ NoDup(clients)
  /\ \A i, j \in 1..Len(clients) :
       i # j => heap[clients[i]].socket # heap[clients[j]].socket
  /\ ListSet = { c \in Conn : pc[c] \notin {"idle", "done"} }
  /\ Len(clients) = Cardinality({ c \in Conn : pc[c] \notin {"idle", "done"} })

RemovedOnce ==
  \A c \in Conn :
    /\ pc[c] = "done" <=> mem[c] = "freed"
    /\ mem[c] = "freed" => (~InList(c) /\ lock[c] = -1)
    /\ InList(c) => (mem[c] = "live" /\ fd[c] = heap[c].socket /\ fd[c] # 0)

\* C1: the sessions in the registry are exactly the connections that were
\* registered and whose handler has not removed them, each once and with
\* pairwise distinct open handles; a record is freed exactly when its own
\* handler has finished, and a freed record is not in the registry.
C1_Registry == RegistryInv /\ RemovedOnce

C1_Witness ==
  /\ Len(clients) >= 2
  /\ \E c \in Conn : pc[c] = "done" /\ mem[c] = "freed"

\* ---- C2
InBroadcast(t) == pc[t] \in {"bc_walk", "bc_send", "bc_unlock"}

\* C2: a call Broadcast(m, S) writes m to every session that is in the
\* registry during its walk and whose handle is not S, to no session twice
\* and never to S: while the call walks, the sessions it has sent to are
\* distinct, none has handle S, each has m in what was written to it, and at
\* the end of the walk they are all the sessions of the registry but S.
C2_BroadcastOnce ==
  \A t \in Conn :
    InBroadcast(t) =>
      /\ clients_mutex = t
      /\ NoDup(bc[t].sent)
      /\ bc[t].count = Len(bc[t].sent)
      /\ \A c \in SeqSet(bc[t].sent) :
           /\ InList(c)
           /\ heap[c].socket # bc[t].exclude
           /\ Count(inbox[c], bc[t].msg) >= 1
      /\ pc[t] = "bc_unlock" =>
           SeqSet(bc[t].sent) = { c \in ListSet : heap[c].socket # bc[t].exclude }

\* a broadcast has walked the whole list and sent to two sessions
C2_Witness ==
  \E t \in Conn : pc[t] = "bc_unlock" /\ Len(bc[t].sent) = 2 /\ Len(clients) = 3

\* ---- the outbound texts of the wire schema
ContentUpdateText(username, file, content) ==
  Obj(<<StrMember("type", <<"content_update">>), StrMember("username", username),
        StrMember("file", file), StrMember("content", content)>>)

CursorUpdateText(username, position, color, file) ==
  Obj(<<StrMember("type", <<"cursor_update">>), StrMember("username", username),
        NumMember("position", ToString(position)), StrMember("color", <<color>>),
        StrMember("file", file)>>)

UserLeftText(username) ==
  Obj(<<StrMember("type", <<"user_left">>), StrMember("username", username)>>)

Files == {PlainFile, QuotedFile}
Contents == {PlainContent, QuotedContent}
Positions == {3, 7}

\* ---- C3
\* C3: when the broadcast that relays a ContentChange of session t has walked
\* the registry, every other registered session has been sent one
\* ContentUpdate with the username, file and content of the inbound message,
\* and t has been sent none.
C3_ContentRelayed ==
  \A t \in Conn : \A f \in Files : \A content \in Contents :
    (pc[t] = "bc_unlock" /\ message[t] = ContentChangeText(t, f, content, {})) =>
      /\ \A c \in ListSet \ {t} :
           Count(inbox[c], ContentUpdateText(NameOf(t), f, content)) = 1
      /\ CountType(inbox[t], "content_update") = 0

\* ---- C4
\* C4: when the broadcast that follows a CursorMove of session t with file f
\* and position p has walked the registry, t's record holds cursor p and file
\* f, every other registered session has been sent one CursorUpdate with t's
\* username, p, t's color and f, and t has been sent none.
C4_CursorRelayed ==
  \A t \in Conn : \A f \in Files : \A p \in Positions :
    (pc[t] = "bc_unlock" /\ message[t] = CursorMoveText(t, f, p, {})) =>
      /\ heap[t].cursor_pos = p
      /\ heap[t].current_file = f
      /\ \A c \in ListSet \ {t} :
           Count(inbox[c], CursorUpdateText(NameOf(t), p, heap[t].color, f)) = 1
      /\ CountType(inbox[t], "cursor_update") = 0

\* ---- C5
LeaveCall(t) == bc[t].ret = "remove"

\* C5: a handler whose read loop has ended broadcasts UserLeft while its
\* session is still registered and removes the session afterwards: when the
\* walk of that broadcast is over, every other registered session has been
\* sent exactly one UserLeft with the session's name; no session is ever sent
\* the same UserLeft twice; and once the handler has finished, the session is
\* not in the registry, so no later snapshot holds it.
C5_Teardown ==
  /\ \A t \in Conn :
       /\ LeaveCall(t) => (InList(t) /\ mem[t] = "live" /\ peerClosed[t])
       /\ (LeaveCall(t) /\ pc[t] = "bc_unlock") =>
            \A c \in ListSet \ {t} : Count(inbox[c], UserLeftText(heap[t].username)) = 1
       /\ pc[t] = "remove" => (InList(t) /\ bc[t] = NoBc)
       /\ pc[t] = "done" => (~InList(t) /\ mem[t] = "freed" /\ fd[t] = 0)
  /\ \A c \in Conn : \A i, j \in 1..Len(inbox[c]) :
       (i < j /\ inbox[c][i].msg = inbox[c][j].msg) => ~Has(inbox[c][i].msg, TypeIs("user_left"))

\* the walk of a UserLeft broadcast is over and it has sent to two sessions
C5_Witness ==
  \E t \in Conn : LeaveCall(t) /\ pc[t] = "bc_unlock" /\ Len(bc[t].sent) = 2

\* ---- C6
\* C6: a handler whose last read held a close frame (opcode 0x8) is not in
\* the read loop: it has gone on to the UserLeft broadcast and remove_client.
C6_CloseEndsLoop ==
  \A t \in Conn : buffer[t].opcode = 8 => pc[t] # "recv"

\* ---- C7
InSend(t) == pc[t] \in {"init", "bc_send", "users_send"}

\* C7: while a handler is inside a send, no other thread is kept from the
\* registry: another handler's broadcast can take clients_mutex, and so can
\* the add_client of the accept loop and the remove_client of a handler.
C7_SendBlocksNoOne ==
  \A t \in Conn :
    InSend(t) =>
      /\ \A u \in Conn \ {t} : pc[u] \in {"bc_lock", "remove", "users_list"} => clients_mutex = 0
      /\ srv.pc = "add_client" => clients_mutex = 0

\* ---- C8
\* C8: the walk that builds users_list never shows, for a session whose
\* cursor_move update has stored the new cursor, a file other than the file
\* of that update.
C8_SnapshotNotTorn ==
  [][\A u \in Conn :
       (pc[u] = "users_list" /\ pc'[u] = "users_send") =>
         \A c \in ListSet :
           pc[c] = "cursor_rest" => heap[c].current_file = FieldText(message[c], "file")]_vars

\* ---- C9
\* C9: a connection is registered only after a request that holds the key
\* header; after a request without it the connection is closed, it has no
\* record and no session, and nothing has been written to it.
C9_NoKeyNoSession ==
  /\ srv.pc = "add_client" => strstr(srv.req, <<KeyHeader>>) # NULL
  /\ (srv.pc = "accept" /\ srv.req # <<>> /\ strstr(srv.req, <<KeyHeader>>) = NULL) =>
       LET c == srv.conn + 1 IN
       /\ fd[c] = 0 /\ mem[c] = "none" /\ pc[c] = "idle" /\ lock[c] = -1
       /\ ~InList(c)
       /\ inbox[c] = <<>>
  /\ \A c \in ListSet : c <= srv.conn

\* a request without the key has been answered by closing, with two sessions
\* registered
C9_Witness ==
  /\ srv.pc = "accept"
  /\ srv.req = RequestNoKey
  /\ Len(clients) = 2

\* ---- C10
LackingOf == [c \in Conn |-> LackingTexts(c)]

Lacking(t) ==
  buffer[t].opcode = 1 /\ buffer[t].complete /\ buffer[t].payload \in LackingOf[t]

Pristine(c) ==
  heap[c].current_file = <<>> /\ heap[c].cursor_pos = 0 /\ heap[c].username[1] = "User"

FailingSend(t) ==
  /\ pc[t] = "bc_send"
  /\ bc'[t].count = bc[t].count + 1
  /\ peerClosed[clients[bc[t].curr]]

\* C11: a send of a broadcast that fails changes no registry entry and no
\* other thread's position, and the walk goes on with the same message and
\* the same caller to return to; when the walk is over, every record of the
\* registry but the excluded one has been sent the message, the ones behind
\* the failed send included.
C11_FailedSendGoesOn ==
  /\ [](\A t \in Conn :
          pc[t] = "bc_unlock" =>
            \A c \in ListSet :
              heap[c].socket # bc[t].exclude =>
                \E i \in 1..Len(inbox[c]) : inbox[c][i].msg = bc[t].msg)
  /\ [][\A t \in Conn :
          FailingSend(t) =>
            /\ clients' = clients /\ mem' = mem /\ heap' = heap /\ fd' = fd
            /\ \A c \in Conn \ {t} : pc'[c] = pc[c]
            /\ pc'[t] \in {"bc_walk", "bc_send", "bc_unlock"}
            /\ bc'[t].msg = bc[t].msg /\ bc'[t].ret = bc[t].ret
            /\ inbox'[clients[bc[t].curr]] =
                 Append(inbox[clients[bc[t].curr]], [msg |-> bc[t].msg, ok |-> FALSE])]_vars

\* a walk is over in which the first send failed and the second did not
C11_Witness ==
  \E t \in Conn :
    /\ pc[t] = "bc_unlock"
    /\ Len(bc[t].sent) = 2
    /\ peerClosed[bc[t].sent[1]]
    /\ ~peerClosed[bc[t].sent[2]]
    /\ inbox[bc[t].sent[2]][Len(inbox[bc[t].sent[2]])] = [msg |-> bc[t].msg, ok |-> TRUE]

\* ---- C12
\* the handler of u has left its read loop and has not yet removed u
InTeardown(u) ==
  \/ pc[u] = "remove"
  \/ LeaveCall(u) /\ pc[u] \in {"bc_lock", "bc_walk", "bc_send", "bc_unlock"}

\* the records the walk of t's broadcast has passed and sends to
Passed(t) ==
  { clients[i] : i \in { j \in 1..Len(clients) : j < bc[t].curr /\ BcTarget(t, j) } }

\* C12: while a broadcast walks the registry, every session in teardown
\* is still a live record of it, the walk's position is a place of the
\* registry, and the records the walk has sent to are exactly the targets it
\* has passed: no teardown takes a record out from under the walk, and when
\* the walk is over every target has been sent the message.
C12_CloseDuringBroadcast ==
  \A t \in Conn :
    InBroadcast(t) =>
      /\ \A u \in Conn : InTeardown(u) => (InList(u) /\ mem[u] = "live" /\ lock[u] # -1)
      /\ bc[t].curr \in 1..(Len(clients) + 1)
      /\ pc[t] = "bc_unlock" <=> bc[t].curr = Len(clients) + 1
      /\ SeqSet(bc[t].sent) = Passed(t)
      /\ \A c \in Passed(t) : Count(inbox[c], bc[t].msg) >= 1

\* session u was sent the message of t's broadcast while its peer was still
\* there, has since left its read loop and waits for the registry, and the
\* walk has gone on to the target behind it
C12_Witness ==
  \E t \in Conn : \E u \in Conn \ {t} :
    /\ pc[t] = "bc_unlock"
    /\ Len(bc[t].sent) = 2
    /\ bc[t].sent[1] = u
    /\ pc[u] = "bc_lock" /\ LeaveCall(u)
    /\ inbox[u][Len(inbox[u])] = [msg |-> bc[t].msg, ok |-> TRUE]
    /\ Count(inbox[bc[t].sent[2]], bc[t].msg) = 1

\* ---- C13
InitText(color) ==
  <<LB, Q, "type", Q, COLON, Q, "init", Q, COMMA, Q, "color", Q, COLON, Q, color, Q, RB>>

UserJoinedText(username) ==
  <<LB, Q, "type", Q, COLON, Q, "user_joined", Q, COMMA, Q, "username", Q, COLON, Q>>
  \o username \o <<Q, RB>>

JoinCall(t) == bc[t].ret = "users_list"

\* the type of a text the server has formatted: its first member
SentType(m) == IF Len(m) >= 7 /\ m[1] = LB /\ m[3] = "type" /\ m[5] = COLON THEN m[7] ELSE ""

CountSent(box, kind) == Cardinality({ i \in 1..Len(box) : SentType(box[i].msg) = kind })

\* inbox[t] holds t's Init and, behind it, a UsersList
InitThenUsersList(t) ==
  \E i, j \in 1..Len(inbox[t]) :
    /\ i < j
    /\ SentType(inbox[t][i].msg) = "init"
    /\ SentType(inbox[t][j].msg) = "users_list"

\* the users_list text that t has formatted names t
OwnEntry(t) ==
  LET name == heap[t].username IN
  \E k \in 5..Len(out[t]) :
    /\ out[t][k - 4] = "username"
    /\ k + Len(name) <= Len(out[t])
    /\ SubSeq(out[t], k, k + Len(name) - 1) = name
    /\ out[t][k + Len(name)] = Q

\* C13: a handler starts with its session in the registry and nothing sent
\* on its behalf; during its UserJoined broadcast the session has been sent
\* its Init once and no UsersList, and when the walk is over every other
\* registered session has been sent the UserJoined once and the session
\* itself not; the UsersList it then formats holds its own entry; and it has
\* read no frame before all of that: once it has read one, its connection
\* has been sent Init and, later, UsersList.
C13_ActiveOrder ==
  \A t \in Conn :
    LET joined == UserJoinedText(heap[t].username)
        inits == CountSent(inbox[t], "init")
        lists == CountSent(inbox[t], "users_list")
    IN
    /\ pc[t] = "init" =>
         /\ InList(t) /\ buffer[t] = NoFrame
         /\ inits = 0 /\ lists = 0
         /\ \A c \in Conn : Count(inbox[c], joined) = 0
    /\ JoinCall(t) =>
         /\ InList(t) /\ buffer[t] = NoFrame
         /\ Count(inbox[t], InitText(heap[t].color)) = 1 /\ inits = 1
         /\ lists = 0
         /\ Count(inbox[t], joined) = 0
         /\ pc[t] = "bc_lock" => \A c \in Conn : Count(inbox[c], joined) = 0
         /\ pc[t] = "bc_unlock" => \A c \in ListSet \ {t} : Count(inbox[c], joined) = 1
    /\ pc[t] \in {"users_list", "users_send"} =>
         /\ InList(t) /\ buffer[t] = NoFrame
         /\ inits = 1 /\ lists = 0
         /\ pc[t] = "users_send" =>
              /\ SentType(out[t]) = "users_list"
              /\ OwnEntry(t)
    /\ (buffer[t] # NoFrame /\ InList(t)) =>
         /\ pc[t] \notin {"init", "users_list", "users_send"} /\ ~JoinCall(t)
         /\ InitThenUsersList(t)
         /\ inits = 1 /\ lists = 1

\* the session registered last of three has read its first frame
C13_Witness ==
  \E t \in Conn :
    /\ Len(clients) = 3 /\ clients[1] = t
    /\ buffer[t] # NoFrame
    /\ pc[t] = "recv"

\* ---- C14 (SpecActive)
Readers == { c \in Conn : buffer[c] # NoFrame }
Closers == { c \in Conn : peerClosed[c] }

\* every session that has read has read exactly one frame
OneFrameEach == MaxActiveInputs - budget = Cardinality(Readers) + Cardinality(Closers)

\* the handler of x is in no field update and its record is in the registry
Settled(x) ==
  InList(x) /\ pc[x] \in {"recv", "bc_lock", "bc_walk", "bc_send", "bc_unlock", "remove"}

\* the record of x after its one frame p, from the schema: a Join sets the
\* username, a CursorMove cursor, file and username, a FileChange the file.
\* The stored name of the file a\"b is a\ (C4), and the 270 characters of
\* LongFile run over x's own cursor_pos and color, the 70 of LongName over
\* x's own current_file; the join inside a ping is taken as a join.
AfterFrame(x, p) ==
  CASE p = JoinText(x, {}) -> [StartRec(x) EXCEPT !.username = NameOf(x)]
    [] p = NestedText(x) -> [StartRec(x) EXCEPT !.username = NameOf(x)]
    [] p = LongJoinText -> [StartRec(x) EXCEPT !.username = LongName, !.current_file = SpillFile]
    [] p = CursorMoveText(x, PlainFile, 7, {}) ->
         [StartRec(x) EXCEPT !.cursor_pos = 7, !.current_file = PlainFile, !.username = NameOf(x)]
    [] p = CursorMoveText(x, QuotedFile, 3, {}) ->
         [StartRec(x) EXCEPT !.cursor_pos = 3, !.current_file = <<"a", BS>>, !.username = NameOf(x)]
    [] p = FileChangeText(PlainFile, {}) -> [StartRec(x) EXCEPT !.current_file = PlainFile]
    [] p = FileChangeText(LongFile, {}) ->
         [StartRec(x) EXCEPT !.current_file = LongFile, !.cursor_pos = SpillInt, !.color = SpillColor]
    [] OTHER -> StartRec(x)

Sockets == 0..(MaxConn + 1)

\* the sockets of the listed records
Listed == { heap[clients[i]].socket : i \in 1..Len(clients) }

\* C15: remove_client of a socket that no listed record has (one that was
\* removed before, or was never added) stops at no record, so it unlinks,
\* destroys, closes and frees nothing and leaves the list as it is; and a
\* second remove_client of the same socket leaves the list of the first
C15_RemoveAbsentNoOp ==
  \A s \in Sockets :
     /\ s \notin Listed =>
          /\ FirstWithSocket(clients, heap, s) = 0
          /\ RemoveFirst(clients, heap, s) = clients
     /\ LET once == RemoveFirst(clients, heap, s)
        IN /\ FirstWithSocket(once, heap, s) = 0
           /\ RemoveFirst(once, heap, s) = once

\* two sessions are listed after a third was removed, and its socket is
\* held by no listed record
C15_Witness ==
  /\ Len(clients) = 2
  /\ \E t \in Conn : /\ pc[t] = "done" /\ mem[t] = "freed"
  /\ \E s \in 1..MaxConn : s \notin Listed

\* the ten entries of colors[]
Palette == { colors[i] : i \in 1..Len(colors) }

\* C16: the color of every listed session is an entry of colors[], as
\* add_client stored it, whatever updates and broadcasts came after; and a
\* session that was just added has an empty current_file and cursor_pos 0
C16_ColorFixed ==
  \A t \in Conn :
     mem[t] = "live" /\ InList(t) =>
       /\ heap[t].color \in Palette
       /\ pc[t] = "init" => /\ heap[t].current_file = <<>>
                            /\ heap[t].cursor_pos = 0

\* the part of C16 that the code keeps: a file name that fits current_file
\* leaves the color alone, and a new session starts with no file at 0
C16_ColorFixedWithinCapacity ==
  \A t \in Conn :
     mem[t] = "live" /\ InList(t) =>
       /\ ~Overrun(heap[t].current_file) => heap[t].color \in Palette
       /\ pc[t] = "init" => /\ heap[t].current_file = <<>>
                            /\ heap[t].cursor_pos = 0

\* ---- C17 .. C20 (CodecSpec)
\* the payload lengths the round trip is stated for
RoundTripLens == {0, 125, 126, 65535, 65536}

\* the call of ws_send_frame has been made
Encoded == codec.pc \in {"sent", "sent_abort", "abort", "round"}

\* what ws_read_frame returned is the text that was sent, with its length
Returned(text) ==
  /\ codec.kind = "message"
  /\ codec.message = text
  /\ codec.out_len = Len(text)

\* C17: for a text of 0, 125, 126, 65535 or 65536 bytes, ws_send_frame
\* returns having sent a frame, and ws_read_frame on that frame returns a
\* message equal to the text, of the same length
C17_RoundTrip ==
  Encoded /\ Len(codec.text) \in RoundTripLens =>
    /\ codec.pc \notin {"abort", "sent_abort"}
    /\ codec.pc = "round" => Returned(codec.text)

\* the round trip for the texts whose frame fits frame[BUFFER_SIZE]
C17_RoundTripWithinFrame ==
  Encoded /\ Len(codec.text) + 4 <= BUFFER_SIZE =>
    /\ codec.pc \notin {"abort", "sent_abort"}
    /\ codec.pc = "round" => Returned(codec.text)

\* the 64-bit big-endian field of a length n < 2^31
BigEndian64(n) ==
  <<0, 0, 0, 0, (n \div 16777216) % 256, (n \div 65536) % 256, (n \div 256) % 256, n % 256>>

\* the frame w is 0x81, the length n in its smallest tier with the mask bit
\* clear, and the text
MinimalFrame(w, text) ==
  LET n == Len(text)
      head == IF n < 126 THEN 2 ELSE IF n < 65536 THEN 4 ELSE 10
  IN /\ Len(w) = head + n
     /\ w[1] = 129
     /\ w[2] < 128
     /\ n < 126 => w[2] = n
     /\ n >= 126 /\ n < 65536 => /\ w[2] = 126
                                 /\ w[3] * 256 + w[4] = n
     /\ n >= 65536 => /\ w[2] = 127
                      /\ SubSeq(w, 3, 10) = BigEndian64(n)
     /\ SubSeq(w, head + 1, head + n) = text

\* C18: every call of ws_send_frame sends one frame and returns; the frame
\* is 0x81, then the payload length in the smallest of the three tiers with
\* the mask bit clear, equal to the length of the text, then the text
C18_MinimalHeader ==
  codec.pc \in {"sent", "sent_abort", "abort"} =>
    /\ codec.pc = "sent"
    /\ MinimalFrame(codec.wire, codec.text)

\* the same for the texts whose frame fits frame[BUFFER_SIZE]
C18_MinimalHeaderWithinFrame ==
  codec.pc \in {"sent", "sent_abort", "abort"} /\ Len(codec.text) + 4 <= BUFFER_SIZE =>
    /\ codec.pc = "sent"
    /\ MinimalFrame(codec.wire, codec.text)

\* the call of ws_read_frame has been made
Decoded == codec.pc \in {"read", "round"}

\* the bytes in front of the mask, as the second byte announces them
HeadSize(buf) ==
  LET l == buf[2] % 128 IN IF l = 126 THEN 4 ELSE IF l = 127 THEN 10 ELSE 2

MaskSize(buf) == IF buf[2] >= 128 THEN 4 ELSE 0

\* the frame declares 2^31 bytes or more
DeclaredHuge(buf) ==
  /\ buf[2] % 128 = 127
  /\ \/ \E k \in 3..6 : buf[k] # 0
     \/ buf[7] >= 128

\* the declared payload length of a frame that declares less than 2^31
DeclaredLength(buf) ==
  LET l == buf[2] % 128
  IN IF l = 126 THEN buf[3] * 256 + buf[4]
     ELSE IF l = 127 THEN buf[7] * 16777216 + buf[8] * 65536 + buf[9] * 256 + buf[10]
     ELSE l

\* the buffer holds fewer bytes than header, mask and declared payload
Short(buf, bytes) ==
  \/ bytes < 2
  \/ bytes < HeadSize(buf)
  \/ DeclaredHuge(buf)
  \/ bytes < HeadSize(buf) + MaskSize(buf) + DeclaredLength(buf)

\* C19: ws_read_frame returns NULL for every buffer that holds fewer bytes
\* than the header, the mask and the declared payload, whatever tier the
\* length is declared in, and a message it returns has the declared length
C19_IncompleteOrDeclared ==
  Decoded =>
    /\ Short(codec.wire, codec.bytes) => codec.kind = "null"
    /\ codec.kind = "message" =>
         /\ ~DeclaredHuge(codec.wire)
         /\ codec.out_len = DeclaredLength(codec.wire)
         /\ Len(codec.message) = codec.out_len

\* the same for the frames that declare less than 2^31 bytes
C19_IncompleteOrDeclaredBelow2G ==
  Decoded /\ (codec.bytes >= HeadSize(codec.wire) => ~DeclaredHuge(codec.wire)) =>
    /\ Short(codec.wire, codec.bytes) => codec.kind = "null"
    /\ codec.kind = "message" =>
         /\ codec.out_len = DeclaredLength(codec.wire)
         /\ Len(codec.message) = codec.out_len

\* the bits that are set in a byte
BitsOf(b) == { k \in 0..7 : (b \div (2 ^ k)) % 2 = 1 }

\* c is a XOR b: the bits set in exactly one of the two
IsXor(c, a, b) == BitsOf(c) = (BitsOf(a) \ BitsOf(b)) \cup (BitsOf(b) \ BitsOf(a))

\* byte i of the message is the wire byte i, XOR mask[i mod 4] when the mask
\* bit is set
PayloadOf(buf, msg) ==
  LET head == HeadSize(buf)
      idx == head + MaskSize(buf)
  IN \A i \in 1..Len(msg) :
       IF buf[2] >= 128
       THEN IsXor(msg[i], buf[idx + i], buf[head + ((i - 1) % 4) + 1])
       ELSE msg[i] = buf[idx + i]

\* C20: a message that ws_read_frame returns has a byte for every position
\* below the declared length; with the mask bit set byte i is the wire byte i
\* XOR mask[i mod 4], with the mask bit clear it is the wire byte i
C20_Unmasked ==
  Decoded /\ codec.kind = "message" =>
    /\ ~DeclaredHuge(codec.wire)
    /\ Len(codec.message) = DeclaredLength(codec.wire)
    /\ PayloadOf(codec.wire, codec.message)

\* the same for the frames that declare less than 2^31 bytes
C20_UnmaskedBelow2G ==
  Decoded /\ codec.kind = "message" /\ ~DeclaredHuge(codec.wire) =>
    /\ Len(codec.message) = DeclaredLength(codec.wire)
    /\ PayloadOf(codec.wire, codec.message)

\* a masked frame of 125 bytes has been read and its message returned
C20_MaskedRead ==
  /\ codec.pc = "read"
  /\ codec.kind = "message"
  /\ codec.wire[2] = 128 + 125
  /\ Len(codec.message) = 125

\* ---- C21, C22 (SpecActive)
\* a step of handler t inside its handling of a frame of the given branch:
\* the dispatch out of recv, and the update that returns to recv
HandlingStep(t, branch) ==
  \/ pc[t] = "recv" /\ pc'[t] = branch
  \/ pc[t] = branch /\ pc'[t] # branch

\* the step leaves the records of all other sessions alone and sends nothing
OthersAndWireUnchanged(t) ==
  /\ \A u \in Conn \ {t} : heap'[u] = heap[u]
  /\ clients' = clients
  /\ inbox' = inbox
  /\ bc' = bc

\* C21: the steps that handle a join change nothing of the sender's record
\* but its username, change no other record, and send and broadcast nothing
C21_JoinOnlyName ==
  [][\A t \in Conn :
       HandlingStep(t, "join") =>
         /\ heap'[t] = [heap[t] EXCEPT !.username = heap'[t].username]
         /\ OthersAndWireUnchanged(t)]_vars

\* the same for the names that fit username[64]
C21_JoinOnlyNameWithinCapacity ==
  [][\A t \in Conn :
       HandlingStep(t, "join") /\ ~NameOverrun(heap'[t].username) =>
         /\ heap'[t] = [heap[t] EXCEPT !.username = heap'[t].username]
         /\ OthersAndWireUnchanged(t)]_vars

\* C22: the steps that handle a file_change change nothing of the sender's
\* record but its current_file, change no other record, and send and
\* broadcast nothing
C22_FileOnlyFile ==
  [][\A t \in Conn :
       HandlingStep(t, "file_change") =>
         /\ heap'[t] = [heap[t] EXCEPT !.current_file = heap'[t].current_file]
         /\ OthersAndWireUnchanged(t)]_vars

\* the same for the file names that fit current_file[256]
C22_FileOnlyFileWithinCapacity ==
  [][\A t \in Conn :
       HandlingStep(t, "file_change") /\ ~Overrun(heap'[t].current_file) =>
         /\ heap'[t] = [heap[t] EXCEPT !.current_file = heap'[t].current_file]
         /\ OthersAndWireUnchanged(t)]_vars

\* ---- C23 (SpecActive)
\* the four kinds of message a session may send
KnownKinds == {"join", "content_change", "cursor_move", "file_change"}

\* the read gave no message of a known kind: the buffer holds less than the
\* frame declares, or the object's type member names none of the four kinds
NoKind(frame) ==
  /\ frame.opcode # 8
  /\ \/ ~frame.complete
     \/ SentType(frame.payload) \notin KnownKinds

\* the step is a read of handler t: an input was taken and t's buffer or
\* position shows it
ReadBy(t) ==
  /\ pc[t] = "recv"
  /\ budget' = budget - 1
  /\ peerClosed' = peerClosed
  /\ buffer'[t] # buffer[t] \/ pc'[t] # pc[t]

\* the step changes no record and sends nothing; t is back at recv
Discarded(t) ==
  /\ pc'[t] = "recv"
  /\ heap' = heap
  /\ clients' = clients
  /\ inbox' = inbox
  /\ bc' = bc

\* C23: a read that gives an incomplete frame, or a payload of none of the
\* four kinds, changes no field of any session, broadcasts nothing, leaves
\* the session in the list and takes the handler back to the next read
C23_NoKindDiscarded ==
  [][\A t \in Conn : ReadBy(t) /\ NoKind(buffer'[t]) => Discarded(t)]_vars

\* the same for the payloads in which none of the four type members occurs
\* at any depth
C23_NoKindDiscardedFlat ==
  [][\A t \in Conn :
       ReadBy(t) /\ NoKind(buffer'[t]) /\ buffer'[t].payload # NestedText(t) => Discarded(t)]_vars

\* an incomplete frame and a ping have been read and the readers wait in recv
C23_DiscardedBoth ==
  /\ buffer[1] = PartialFrame(JoinText(1, {})) /\ pc[1] = "recv"
  /\ buffer[2] = TextFrame(PingText) /\ pc[2] = "recv"
  /\ heap[1] = StartRec(1) /\ heap[2] = StartRec(2)

\* ---- C24 (FairActive)
\* recv of handler t returns <= 0
AtEOF(t) == pc[t] = "recv" /\ peerClosed[t]

\* the handler of t has returned and its record is out of the list
Removed(t) == pc[t] = "done" /\ ~InList(t)

\* C24: with every runnable thread scheduled and every send returning, a
\* session whose recv returns <= 0 is eventually out of the list and its
\* handler has returned
C24_ClosedRemoved == \A t \in Conn : AtEOF(t) ~> Removed(t)

\* the same as long as the process is not ended by a copy past an array
C24_ClosedRemovedUnlessAbort ==
  \A t \in Conn : AtEOF(t) ~> (Removed(t) \/ srv.pc = "abort")

\* a session whose peer closed has been removed
C24_RemovedAfterEOF == \E t \in Conn : peerClosed[t] /\ Removed(t)

\* ---- C25 (SpecActive)
\* C25: no thread is inside ws_send_frame while it holds clients_mutex; the
\* mutex is held for the list operations only, so between the steps of the
\* handlers it is free
C25_NoSendUnderRegistryLock ==
  /\ \A t \in Conn : InSend(t) => clients_mutex # t
  /\ clients_mutex = 0

\* ---- C26
\* the threads that are inside a send to the connection of session c: its
\* own handler sending init_msg or users_msg, and the broadcasts whose walk
\* is at c
SendersTo(c) ==
  { t \in Conn :
      \/ t = c /\ pc[t] \in {"init", "users_send"}
      \/ pc[t] = "bc_send" /\ clients[bc[t].curr] = c }

\* C26: every thread inside a send to the connection of session c holds
\* c's lock, so there is at most one
C26_SendsUnderOwnLock ==
  \A c \in Conn :
    /\ \A t \in SendersTo(c) : lock[c] = t
    /\ Cardinality(SendersTo(c)) <= 1

\* the sends of broadcast_message alone are made under the target's lock,
\* one at a time for each connection
C26_BroadcastSendsUnderLock ==
  \A c \in Conn :
    LET walkers == { t \in Conn : pc[t] = "bc_send" /\ clients[bc[t].curr] = c }
    IN /\ \A t \in walkers : lock[c] = t
       /\ Cardinality(walkers) <= 1

\* two sends to one connection at once: the handler of c sends its
\* users_msg while another handler's broadcast sends to c
C26_TwoSendsAtOnce == \E c \in Conn : Cardinality(SendersTo(c)) = 2

\* ---- C27 (SpecActive)
\* the fields the three updates store into
Fields(rec) == <<rec.username, rec.current_file, rec.cursor_pos>>

\* C27: every step that changes the username, file or cursor of a listed
\* session x is taken with x's lock free to take or held by x's own handler
\* (no other thread holds it before or after the step), and x's handler does
\* not hold clients_mutex
C27_UpdatesUnderOwnLock ==
  [][\A x \in Conn :
       InList(x) /\ mem'[x] = "live" /\ Fields(heap'[x]) # Fields(heap[x]) =>
         /\ lock[x] \in {0, x}
         /\ lock'[x] \in {0, x}
         /\ pc[x] = "cursor_rest" => lock[x] = x
         /\ pc'[x] = "cursor_rest" => lock'[x] = x
         /\ clients_mutex # x]_vars

\* session 1 is inside its cursor_move update holding its own lock while the
\* broadcast of session 2 holds clients_mutex
C27_Witness ==
  /\ pc[1] = "cursor_rest"
  /\ lock[1] = 1
  /\ clients_mutex = 2
  /\ heap[1].cursor_pos # 0

\* ---- C28
\* connection c has been accepted and its upgrade request has not been read
AwaitingRequest(c) == srv.pc = "request" /\ srv.conn = c /\ fd[c] # 0 /\ mem[c] = "none"

\* C28: while an accepted connection has not sent its upgrade request, the
\* server can accept the next connection (as long as one is left to come)
C28_HandshakeBlocksOnlyItself ==
  \A c \in Conn :
    AwaitingRequest(c) /\ srv.conn < MaxConn => ENABLED Accept

\* the accept loop waits for the request of connection 2 while session 1 is
\* registered and served by its own thread
C28_ServedWhileWaiting ==
  /\ AwaitingRequest(2)
  /\ InList(1)
  /\ pc[1] = "recv"

\* ---- C29 (SpecActive)
\* the record a broadcast of t waits for or sends to
WalkAt(t) == clients[bc[t].curr]

\* C29: a record that remove_client has freed is out of the list, its lock
\* is destroyed and held by no one, its handler has returned, nothing is
\* written to its connection and nothing is stored into it; and the record a
\* broadcast waits for or sends to is a live record of the list whose lock
\* exists, held by the broadcast while it sends
C29_NoUseAfterRemove ==
  /\ \A x \in Conn :
       mem[x] = "freed" =>
         /\ ~InList(x)
         /\ lock[x] = -1
         /\ pc[x] = "done"
         /\ inbox[x] = <<>>
         /\ heap[x] = NoClient
  /\ \A x \in Conn : lock[x] \in Conn => (mem[x] = "live" /\ InList(x))
  /\ \A t \in Conn :
       pc[t] \in {"bc_walk", "bc_send"} =>
         /\ bc[t].curr \in 1..Len(clients)
         /\ mem[WalkAt(t)] = "live"
         /\ lock[WalkAt(t)] # -1
         /\ pc[t] = "bc_send" => lock[WalkAt(t)] = t

\* session 1 has been removed and a later broadcast of session 2 walks a
\* list without it and sends to no one
C29_Witness ==
  /\ mem[1] = "freed"
  /\ pc[2] = "bc_unlock"
  /\ bc[2].sent = <<>>
  /\ inbox[1] = <<>>

\* ---- C30
\* the session locks thread t holds
Held(t) == { x \in Conn : lock[x] = t }

\* the thread that handler t waits for: the holder of clients_mutex when t
\* is at a pthread_mutex_lock(&clients_mutex), the holder of the session
\* lock when t is at a pthread_mutex_lock of one; 0 when t waits for no one
WaitsFor(t) ==
  IF pc[t] \in {"bc_lock", "users_list", "remove"} THEN clients_mutex
  ELSE IF pc[t] \in {"join", "cursor_move", "file_change"} THEN lock[t]
  ELSE IF pc[t] = "bc_walk" THEN lock[WalkAt(t)]
  ELSE 0

\* following WaitsFor from t ends, after at most n threads, at a thread that
\* waits for no one and has a step to take
RECURSIVE CanGoOn(_, _)
CanGoOn(t, n) ==
  IF WaitsFor(t) = 0 THEN ENABLED Run(t)
  ELSE n > 0 /\ CanGoOn(WaitsFor(t), n - 1)

\* the process has not been ended: its threads and their locks exist
Running == srv.pc # "abort"

\* C30: while the process runs, a thread takes clients_mutex holding no
\* session lock, a broadcast takes a session lock only with clients_mutex
\* held, no thread holds two session locks, and every thread that waits for
\* a lock (a handler, or the accept loop in add_client) waits for a thread
\* that can go on
C30_LockOrder ==
  Running =>
  /\ \A t \in Conn :
       /\ Cardinality(Held(t)) <= 1
       /\ pc[t] \in {"bc_lock", "users_list", "remove"} => Held(t) = {}
       /\ clients_mutex = t =>
            /\ InBroadcast(t)
            /\ Held(t) = IF pc[t] = "bc_send" THEN {WalkAt(t)} ELSE {}
       /\ pc[t] \in {"bc_walk", "bc_send"} => clients_mutex = t
       /\ Held(t) # {} /\ ~InBroadcast(t) => (Held(t) = {t} /\ pc[t] = "cursor_rest")
       /\ WaitsFor(t) \in Conn => CanGoOn(WaitsFor(t), MaxConn)
  /\ srv.pc = "add_client" /\ clients_mutex \in Conn => CanGoOn(clients_mutex, MaxConn)

\* the accept loop waits in add_client for clients_mutex, held by the
\* broadcast of session 2, which waits for the lock of session 1, held by
\* the cursor_move update of session 1
C30_Witness ==
  /\ srv.pc = "add_client"
  /\ clients_mutex = 2
  /\ pc[2] = "bc_walk"
  /\ WalkAt(2) = 1
  /\ pc[1] = "cursor_rest"

\* ---- C31
\* the entry of a user name in a users_list text
NameEntry(username) == StrMember("username", username)

\* box holds a UsersList that names username and no UserLeft of it behind it
StaleIn(box, username) ==
  \E i \in 1..Len(box) :
    /\ SentType(box[i].msg) = "users_list"
    /\ Has(box[i].msg, NameEntry(username))
    /\ \A j \in (i + 1)..Len(box) : box[j].msg # leave_msg(username)

\* C31: a session that learns of a user from a UsersList is told when that
\* user goes.  remove_client is the last statement of the leaving handler and
\* its UserLeft broadcast is over by then, so when a record is removed every
\* other registered session that has been sent, or has formatted, a
\* UsersList naming it must have been sent its UserLeft behind that list.
C31_NoStaleUser ==
  [][\A u \in Conn :
       (pc[u] = "remove" /\ pc'[u] = "done") =>
         \A c \in ListSet \ {u} :
           /\ ~Has(out[c], NameEntry(heap[u].username))
           /\ ~StaleIn(inbox[c], heap[u].username)]_vars

\* a session has been sent the UserLeft of a user and, behind it, a
\* UsersList that names the user
C31_LeftThenListed ==
  \E c, u \in Conn :
    /\ c # u /\ pc[u] = "remove" /\ pc[c] = "recv"
    /\ \E i, j \in 1..Len(inbox[c]) :
         /\ i < j
         /\ inbox[c][i].msg = leave_msg(heap[u].username)
         /\ SentType(inbox[c][j].msg) = "users_list"
         /\ Has(inbox[c][j].msg, NameEntry(heap[u].username))

\* a session added after the UserLeft broadcast of a user was over has been
\* sent a UsersList that names the user, and no UserLeft of it
C31_ListedNeverLeft ==
  \E c, u \in Conn :
    /\ c # u /\ pc[u] = "remove" /\ pc[c] = "recv"
    /\ StaleIn(inbox[c], heap[u].username)
    /\ Count(inbox[c], leave_msg(heap[u].username)) = 0

\* ---- C32
\* C32: whatever a registered session has been sent, the first of it is its
\* Init.
C32_InitFirst ==
  \A c \in ListSet :
    inbox[c] # <<>> => SentType(inbox[c][1].msg) = "init"

\* the Init of a session is the first message its own handler sends to it:
\* what it has been sent before is broadcasts of other handlers only
C32_InitFirstOfOwnSends ==
  \A c \in ListSet :
    /\ pc[c] = "init" =>
         \A i \in 1..Len(inbox[c]) :
           SentType(inbox[c][i].msg) \notin {"init", "users_list"}
    /\ pc[c] \notin {"init", "idle", "abort"} => CountSent(inbox[c], "init") = 1

\* a session whose handler has not sent its Init yet has been sent the
\* UserJoined of a later session
C32_JoinedBeforeInit ==
  \E c \in ListSet :
    /\ pc[c] = "init"
    /\ inbox[c] # <<>>
    /\ SentType(inbox[c][1].msg) = "user_joined"

\* ---- C33
BroadcastKinds == {"user_joined", "content_update", "cursor_update", "user_left"}

\* what broadcast_message calls have sent a connection, in the order sent
Sent(c) == SelectSeq(inbox[c], LAMBDA e : SentType(e.msg) \in BroadcastKinds)

\* the broadcast call behind the i-th message of q: its text and which copy
\* of that text it is. A text names the handler that issued it, and the
\* sessions are all registered before the first call, so the k-th copy of a
\* text is the same call for every recipient.
Nth(q, i) == <<q[i].msg, Cardinality({ k \in 1..i : q[k].msg = q[i].msg })>>

\* the broadcast calls a connection has been sent, in the order sent
Calls(c) == LET q == Sent(c) IN [i \in 1..Len(q) |-> Nth(q, i)]

\* the broadcast texts a connection has been sent
Received(c) == { Sent(c)[i].msg : i \in 1..Len(Sent(c)) }

\* the broadcast calls that have sent something so far
Broadcasts == UNION { { Calls(c)[i] : i \in 1..Len(Calls(c)) } : c \in Conn }

\* <<a, b>>: some connection has been sent b next after a
Follows ==
  UNION { { <<Calls(c)[i], Calls(c)[i + 1]>> : i \in 1..(Len(Calls(c)) - 1) } : c \in Conn }

\* some connection has been sent the call a and, behind it, the call b
Before(a, b) ==
  \E c \in Conn : \E i, j \in 1..Len(Calls(c)) :
    i < j /\ Calls(c)[i] = a /\ Calls(c)[j] = b

\* the calls of S can be put in one order that agrees with every pair of R:
\* the calls that follow none of S come first, then the rest likewise
RECURSIVE Ordered(_, _)
Ordered(S, R) ==
  \/ S = {}
  \/ LET first == { m \in S : \A x \in S : <<x, m>> \notin R }
     IN first # {} /\ Ordered(S \ first, R)

\* the handler that issued a broadcast text, from the user name it carries
\* (its second member): the name the server gave the session, or the name
\* the session's peer sends
SenderOf(m) ==
  LET name == <<m[15], m[16]>>
      from == { s \in Conn : name = NameOf(s) \/ name = StartRec(s).username }
  IN IF from = {} THEN 0 ELSE CHOOSE s \in from : TRUE

\* C33: the broadcast calls made so far have one order that every
\* recipient's sequence agrees with, so that any two sessions that were sent
\* the same two broadcasts were sent them in the same order; and no
\* recipient was sent a handler's UserJoined, the first broadcast the handler
\* issues, behind another broadcast of that handler, nor a handler's
\* UserLeft, the last one it issues, ahead of another.
C33_TotalOrder ==
  /\ Ordered(Broadcasts, Follows)
  /\ \A c \in Conn :
       LET q == Sent(c)
       IN \A i, j \in 1..Len(q) :
            /\ i < j
            /\ \/ SentType(q[j].msg) = "user_joined"
               \/ SentType(q[i].msg) = "user_left"
            => SenderOf(q[i].msg) # SenderOf(q[j].msg)

\* the UserJoined broadcasts were all made with every session registered:
\* each session has been sent those of the others
C33_Witness ==
  /\ Len(clients) = MaxConn
  /\ \A c \in Conn :
       Received(c) = { join_msg(StartRec(s).username) : s \in Conn \ {c} }

\* two sessions have both been sent the UserJoined of a third and, behind
\* it, a later broadcast of the same handler
C33_SameSenderPair ==
  \E c, d \in Conn : \E a, b \in Received(c) \cap Received(d) :
    /\ c # d /\ a # b
    /\ SentType(a) = "user_joined"
    /\ SenderOf(a) = SenderOf(b) /\ SenderOf(a) # 0
    /\ Before(<<a, 1>>, <<b, 1>>)

\* ---- C34 (SpecActive)
\* C34: the username stored for a session is never longer than 63
\* characters and its file name never longer than 255, the capacities of
\* username[64] and current_file[256] less the terminator.
C34_FieldsWithinCapacity ==
  \A c \in ListSet :
    /\ TextLen(heap[c].username) <= NameSize - 1
    /\ TextLen(heap[c].current_file) <= FileSize - 1

\* a stored text is longer than its array only when a peer sent it so: the
\* names the server forms and the texts that fit are stored within capacity
C34_OverlongOnlyAsSent ==
  \A c \in ListSet :
    /\ TextLen(heap[c].username) > NameSize - 1 => heap[c].username = LongName
    /\ TextLen(heap[c].current_file) > FileSize - 1 => heap[c].current_file = LongFile

\* both arrays of one session have been overrun
C34_BothOverrun ==
  \E c \in ListSet :
    /\ heap[c].username = LongName
    /\ heap[c].current_file = LongFile

\* ==================================================== the terminal editor
\* src/kilo.c: the rows of the buffer, the cursor, and the undo and redo
\* stacks.  Rows and columns count from 0 as in the source; row y of the
\* buffer is row[y + 1].
MaxRows == 2          \* rows of the file that is opened
MaxCols == 2          \* characters of a row of that file
MaxKeys == 4          \* keys pressed over a run
Chars == {"a", "b"}

\* editorInsertRow(at, s, len)
editorInsertRow(row, at, chars) ==
  IF at < 0 \/ at > Len(row) THEN row
  ELSE SubSeq(row, 1, at) \o <<chars>> \o SubSeq(row, at + 1, Len(row))

\* editorDelRow(at)
editorDelRow(row, at) ==
  IF at < 0 \/ at >= Len(row) THEN row
  ELSE SubSeq(row, 1, at) \o SubSeq(row, at + 2, Len(row))

\* editorRowInsertChar(row, at, c) on the characters of one row
editorRowInsertChar(chars, at, c) ==
  LET pos == IF at < 0 \/ at > Len(chars) THEN Len(chars) ELSE at
  IN SubSeq(chars, 1, pos) \o <<c>> \o SubSeq(chars, pos + 1, Len(chars))

\* editorRowDelChar(row, at)
editorRowDelChar(chars, at) ==
  IF at < 0 \/ at >= Len(chars) THEN chars
  ELSE SubSeq(chars, 1, at) \o SubSeq(chars, at + 2, Len(chars))

\* the loop of editorInsertCharsAt: s[i] goes to column x + i
RECURSIVE InsertEach(_, _, _)
InsertEach(chars, x, data) ==
  IF data = <<>> THEN chars
  ELSE InsertEach(editorRowInsertChar(chars, x, Head(data)), x + 1, Tail(data))

\* editorInsertCharsAt(y, x, s, len)
editorInsertCharsAt(row, y, x, data) ==
  IF y < 0 \/ y > Len(row) THEN row
  ELSE LET grown == IF y = Len(row) THEN editorInsertRow(row, Len(row), <<>>) ELSE row
       IN [grown EXCEPT ![y + 1] = InsertEach(@, x, data)]

\* editorDelCharsAt(y, x, len): the rows afterwards and the buffer returned,
\* NULL when nothing was deleted
editorDelCharsAt(row, y, x, len) ==
  IF (y < 0 \/ y >= Len(row)) \/ (x < 0 \/ x >= Len(row[y + 1])) \/ len <= 0
  THEN [row |-> row, null |-> TRUE, buf |-> <<>>]
  ELSE LET n == IF x + len > Len(row[y + 1]) THEN Len(row[y + 1]) - x ELSE len
       IN [row |-> [row EXCEPT ![y + 1] = SubSeq(@, 1, x) \o SubSeq(@, x + n + 1, Len(@))],
           null |-> FALSE,
           buf |-> SubSeq(row[y + 1], x + 1, x + n)]

\* an EditorAction
Action(type, ay, ax, data, data_len, prev_cy, prev_cx) ==
  [type |-> type, ay |-> ay, ax |-> ax, data |-> data, data_len |-> data_len,
   prev_cy |-> prev_cy, prev_cx |-> prev_cx]

\* one key has been handled: what the handler left, the stacks, and for the
\* properties the key and the rows before it
Pressed(key, row, cx, cy, undoStack, redoStack) ==
  [row |-> row, cx |-> cx, cy |-> cy, undoStack |-> undoStack, redoStack |-> redoStack,
   key |-> key, before |-> kilo.row, keys |-> kilo.keys + 1]

\* editorProcessKeypress has a key to handle
AtKey == kilo.key \notin {"", "abort"} /\ kilo.keys < MaxKeys

\* actionstack_push; the top of a stack is its last item
Push(stack, a) == Append(stack, a)
Top(stack) == stack[Len(stack)]
Pop(stack) == SubSeq(stack, 1, Len(stack) - 1)

\* the byte that ends a string
NUL == "\\0"

\* the process ends inside the handler of a key
Crash == [kilo EXCEPT !.key = "abort", !.before = kilo.row, !.keys = @ + 1]

\* a printable key: editorInsertChar(c)
editorInsertChar(c) ==
  /\ AtKey
  /\ LET grown == IF kilo.cy = Len(kilo.row)
                  THEN editorInsertRow(kilo.row, Len(kilo.row), <<>>) ELSE kilo.row
         row == [grown EXCEPT ![kilo.cy + 1] = editorRowInsertChar(@, kilo.cx, c)]
         a == Action("ACT_INSERT", kilo.cy, kilo.cx, <<c>>, 1, kilo.cy, kilo.cx)
     IN kilo' = Pressed("insert_char", row, kilo.cx + 1, kilo.cy, Push(kilo.undoStack, a), <<>>)

\* Enter: editorInsertNewline().  With the cursor inside a row the function
\* keeps `row = &E.row[E.cy]` across editorInsertRow, whose realloc may move
\* E.row: the split is done as written when the block stays where it is;
\* when it moves, the function works on the freed copy of the row, and
\* either the process ends there or the row in the buffer keeps its size
\* with the tail shifted out of its characters (the head, then NUL bytes).
\* With the cursor behind the end of its row the length of the new row is
\* negative and the copy of (size_t)len bytes ends the process.
editorInsertNewline ==
  /\ AtKey
  /\ IF kilo.cx = 0
     THEN LET a == Action("ACT_INSERT", kilo.cy, 0, <<>>, 0, kilo.cy, kilo.cx)
          IN kilo' = Pressed("newline", editorInsertRow(kilo.row, kilo.cy, <<>>), 0, kilo.cy + 1,
                             Push(kilo.undoStack, a), <<>>)
     ELSE IF kilo.cy >= Len(kilo.row) \/ kilo.cx > Len(kilo.row[kilo.cy + 1])
     THEN kilo' = Crash
     ELSE LET chars == kilo.row[kilo.cy + 1]
              head == SubSeq(chars, 1, kilo.cx)
              tail == SubSeq(chars, kilo.cx + 1, Len(chars))
              added == editorInsertRow(kilo.row, kilo.cy + 1, tail)
              a == Action("ACT_DELETE", kilo.cy, kilo.cx, tail, Len(tail), kilo.cy, kilo.cx)
          IN \/ kilo' = Pressed("newline", [added EXCEPT ![kilo.cy + 1] = head], 0, kilo.cy + 1,
                                Push(kilo.undoStack, a), <<>>)
             \/ kilo' = Pressed("newline",
                                [added EXCEPT ![kilo.cy + 1] = head \o [i \in 1..Len(tail) |-> NUL]],
                                0, kilo.cy + 1, Push(kilo.undoStack, a), <<>>)
             \/ kilo' = Crash

\* Backspace: editorDelChar()
editorDelChar ==
  /\ AtKey
  /\ IF kilo.cy = Len(kilo.row) \/ (kilo.cx = 0 /\ kilo.cy = 0)
     THEN kilo' = Pressed("del_none", kilo.row, kilo.cx, kilo.cy, kilo.undoStack, kilo.redoStack)
     ELSE IF kilo.cx > 0
     THEN LET d == editorDelCharsAt(kilo.row, kilo.cy, kilo.cx - 1, 1)
              a == Action("ACT_DELETE", kilo.cy, kilo.cx - 1, d.buf, 1, kilo.cy, kilo.cx)
          IN IF d.null
             THEN kilo' = Pressed("del_none", d.row, kilo.cx - 1, kilo.cy,
                                  kilo.undoStack, kilo.redoStack)
             ELSE kilo' = Pressed("del_char", d.row, kilo.cx - 1, kilo.cy,
                                  Push(kilo.undoStack, a), <<>>)
     ELSE LET prev_len == Len(kilo.row[kilo.cy])
              joined == [kilo.row EXCEPT ![kilo.cy] = @ \o kilo.row[kilo.cy + 1]]
              a == Action("ACT_DELETE", kilo.cy, 0, <<>>, 0, kilo.cy, kilo.cx)
          IN kilo' = Pressed("del_join", editorDelRow(joined, kilo.cy), prev_len, kilo.cy - 1,
                             Push(kilo.undoStack, a), <<>>)

ARROW_LEFT == "ARROW_LEFT"
ARROW_RIGHT == "ARROW_RIGHT"
ARROW_UP == "ARROW_UP"
ARROW_DOWN == "ARROW_DOWN"
Arrows == {ARROW_LEFT, ARROW_RIGHT, ARROW_UP, ARROW_DOWN}

\* an arrow key: editorMoveCursor(key)
editorMoveCursor(key) ==
  /\ AtKey
  /\ LET numrows == Len(kilo.row)
         size == IF kilo.cy >= numrows THEN -1 ELSE Len(kilo.row[kilo.cy + 1])
         to == CASE key = ARROW_LEFT ->
                      IF kilo.cx # 0 THEN <<kilo.cy, kilo.cx - 1>>
                      ELSE IF kilo.cy > 0 THEN <<kilo.cy - 1, Len(kilo.row[kilo.cy])>>
                      ELSE <<kilo.cy, kilo.cx>>
                 [] key = ARROW_RIGHT ->
                      IF size >= 0 /\ kilo.cx < size THEN <<kilo.cy, kilo.cx + 1>>
                      ELSE IF size >= 0 /\ kilo.cx = size THEN <<kilo.cy + 1, 0>>
                      ELSE <<kilo.cy, kilo.cx>>
                 [] key = ARROW_UP ->
                      IF kilo.cy # 0 THEN <<kilo.cy - 1, kilo.cx>> ELSE <<kilo.cy, kilo.cx>>
                 [] key = ARROW_DOWN ->
                      IF kilo.cy < numrows THEN <<kilo.cy + 1, kilo.cx>> ELSE <<kilo.cy, kilo.cx>>
         rowlen == IF to[1] >= numrows THEN 0 ELSE Len(kilo.row[to[1] + 1])
         cx == IF to[2] > rowlen THEN rowlen ELSE to[2]
         a == Action("ACT_MOVE", to[1], cx, <<>>, 0, kilo.cy, kilo.cx)
     IN kilo' = Pressed("move", kilo.row, cx, to[1], Push(kilo.undoStack, a), <<>>)

\* Ctrl-Z: editorUndo()
editorUndo ==
  /\ AtKey
  /\ IF kilo.undoStack = <<>>
     THEN kilo' = Pressed("undo_none", kilo.row, kilo.cx, kilo.cy, kilo.undoStack, kilo.redoStack)
     ELSE LET a == Top(kilo.undoStack)
              rest == Pop(kilo.undoStack)
          IN CASE a.type = "ACT_INSERT" ->
                    LET d == editorDelCharsAt(kilo.row, a.ay, a.ax, a.data_len)
                        inverse == Action("ACT_DELETE", a.ay, a.ax, d.buf,
                                          IF d.null THEN 0 ELSE a.data_len, a.prev_cy, a.prev_cx)
                    IN kilo' = Pressed("undo", d.row, kilo.cx, kilo.cy, rest,
                                       Push(kilo.redoStack, inverse))
               [] a.type = "ACT_DELETE" ->
                    LET row == IF a.data_len > 0
                               THEN editorInsertCharsAt(kilo.row, a.ay, a.ax, a.data)
                               ELSE kilo.row
                        inverse == Action("ACT_INSERT", a.ay, a.ax, a.data, a.data_len,
                                          a.prev_cy, a.prev_cx)
                    IN kilo' = Pressed("undo", row, kilo.cx, kilo.cy, rest,
                                       Push(kilo.redoStack, inverse))
               [] a.type = "ACT_MOVE" ->
                    LET inverse == Action("ACT_MOVE", kilo.cy, kilo.cx, <<>>, 0,
                                          a.prev_cy, a.prev_cx)
                    IN kilo' = Pressed("undo", kilo.row, a.prev_cx, a.prev_cy, rest,
                                       Push(kilo.redoStack, inverse))

\* Ctrl-Y: editorRedo()
editorRedo ==
  /\ AtKey
  /\ IF kilo.redoStack = <<>>
     THEN kilo' = Pressed("redo_none", kilo.row, kilo.cx, kilo.cy, kilo.undoStack, kilo.redoStack)
     ELSE LET a == Top(kilo.redoStack)
              rest == Pop(kilo.redoStack)
          IN CASE a.type = "ACT_INSERT" ->
                    LET row == IF a.data_len > 0
                               THEN editorInsertCharsAt(kilo.row, a.ay, a.ax, a.data)
                               ELSE kilo.row
                        inverse == Action("ACT_DELETE", a.ay, a.ax, a.data, a.data_len,
                                          a.prev_cy, a.prev_cx)
                    IN kilo' = Pressed("redo", row, kilo.cx, kilo.cy,
                                       Push(kilo.undoStack, inverse), rest)
               [] a.type = "ACT_DELETE" ->
                    LET d == editorDelCharsAt(kilo.row, a.ay, a.ax, a.data_len)
                        inverse == Action("ACT_INSERT", a.ay, a.ax, d.buf, a.data_len,
                                          a.prev_cy, a.prev_cx)
                    IN kilo' = Pressed("redo", d.row, kilo.cx, kilo.cy,
                                       Push(kilo.undoStack, inverse), rest)
               [] a.type = "ACT_MOVE" ->
                    LET inverse == Action("ACT_MOVE", kilo.cy, kilo.cx, <<>>, 0,
                                          a.prev_cy, a.prev_cx)
                    IN kilo' = Pressed("redo", kilo.row, a.prev_cx, a.prev_cy,
                                       Push(kilo.undoStack, inverse), rest)

\* the files editorOpen may load: up to MaxRows rows of up to MaxCols
\* characters
Lines == UNION { [1..n -> Chars] : n \in 0..MaxCols }
Buffers == UNION { [1..n -> Lines] : n \in 0..MaxRows }

\* initEditor and editorOpen: the cursor at the top, both stacks empty
KiloInit ==
  /\ clients = <<>>
  /\ heap = [c \in Conn |-> NoClient]
  /\ mem = [c \in Conn |-> "none"]
  /\ lock = [c \in Conn |-> -1]
  /\ clients_mutex = 0
  /\ fd = [c \in Conn |-> 0]
  /\ srv = [pc |-> "accept", conn |-> 0, req |-> <<>>]
  /\ pc = [c \in Conn |-> "idle"]
  /\ message = [c \in Conn |-> <<>>]
  /\ out = [c \in Conn |-> <<>>]
  /\ bc = [c \in Conn |-> NoBc]
  /\ inbox = [c \in Conn |-> <<>>]
  /\ peerClosed = [c \in Conn |-> FALSE]
  /\ budget = 0
  /\ buffer = [c \in Conn |-> NoFrame]
  /\ seed = 0
  /\ nrand = 0
  /\ codec = NoCodec
  /\ \E b \in Buffers : kilo = [NoKilo EXCEPT !.row = b, !.key = "open"]

\* editorProcessKeypress: one key
KiloNext ==
  /\ \/ \E c \in Chars : editorInsertChar(c)
     \/ editorInsertNewline
     \/ editorDelChar
     \/ \E key \in Arrows : editorMoveCursor(key)
     \/ editorUndo
     \/ editorRedo
  /\ UNCHANGED <<clients, heap, mem, lock, clients_mutex, fd, srv, pc, message, out, bc,
                 inbox, peerClosed, budget, buffer, seed, nrand, codec>>

KiloSpec == KiloInit /\ [][KiloNext]_vars

\* the cursor is on a row of the buffer or on the line behind the last row
CursorInBuffer ==
  /\ kilo.cy >= 0 /\ kilo.cy <= Len(kilo.row)
  /\ kilo.cx >= 0
  /\ kilo.cy = Len(kilo.row) => kilo.cx = 0

\* ---- C35 (KiloSpec)
\* the last key typed or deleted one character, recorded on the undo stack
CharEdit == kilo.key \in {"insert_char", "del_char"}

\* the last key was an undo of an insert or delete record
UndidEdit ==
  /\ kilo.key = "undo"
  /\ kilo.redoStack # <<>>
  /\ Top(kilo.redoStack).type # "ACT_MOVE"

\* C35: an undo right after an edit of one character gives back the rows
\* from before the edit, and a redo right after the undo of an insert or
\* delete record gives back the rows from before the undo.
C35_UndoRedoInverse ==
  [][/\ (CharEdit /\ kilo'.key = "undo") => kilo'.row = kilo.before
     /\ (UndidEdit /\ kilo'.key = "redo") => kilo'.row = kilo.before]_vars

\* an undo right after an edit of one character gives back the rows from
\* before the edit when the edit was made in a row of the buffer, with the
\* cursor inside that row
C35_UndoRestoresInRow ==
  [][(/\ CharEdit
      /\ Len(kilo.before) = Len(kilo.row)
      /\ Top(kilo.undoStack).ax <= Len(kilo.before[Top(kilo.undoStack).ay + 1])
      /\ kilo'.key = "undo") => kilo'.row = kilo.before]_vars

\* a redo right after the undo of a one-character edit never gives back the
\* rows from before the undo
C35_RedoNeverRestores ==
  [][(/\ UndidEdit
      /\ Top(kilo.redoStack).data_len = 1
      /\ kilo'.key = "redo") => kilo'.row # kilo.before]_vars

\* a character was typed in the middle of a row, undone and redone: the
\* redo has deleted the character behind it
C35_RedoDeletes ==
  /\ kilo.key = "redo"
  /\ kilo.keys = 3
  /\ Top(kilo.undoStack).type = "ACT_INSERT"
  /\ kilo.row = <<<<"b">>>>
  /\ kilo.before = <<<<"a", "b">>>>


====
